---- MODULE Spec2Model ----
(***************************************************************************)
(* Temporal query resolution and AI-assisted ranking pipeline of the       *)
(* events-discovery backend (Backend/utils, Backend/services,              *)
(* Backend/routers).                                                       *)
(*                                                                         *)
(* Datetimes are records [day, ms, tz]: day is the number of civil days    *)
(* since Monday 2024-01-01, ms the millisecond of that day (the document   *)
(* store keeps dates with millisecond resolution, so microsecond=999999    *)
(* is the millisecond 999), tz the tzinfo ("naive", "utc" or "dubai").     *)
(***************************************************************************)
EXTENDS Integers, Sequences, FiniteSets, TLC

VARIABLES
    now,        \* the wall clock: the current instant, as a UTC datetime
    server_tz,  \* the time zone of the server process ("utc" or "dubai")
    dcall,      \* the last call of a date utility: its arguments and result
    rcall,      \* the last call of the ranking step: its arguments and result
    enabled,    \* the enabled field of the two service singletons
    db,         \* the document store: the set of stored events
    req,        \* the search request being served
    pc,         \* the position of the search request handler
    filter_query, \* the retrieval predicate the handler built
    events,     \* the candidates the handler retrieved
    calls,      \* the retrievals and service calls the handler issued
    response    \* the response of the handler

vars == <<now, server_tz, dcall, rcall, enabled, db, req, pc, filter_query,
          events, calls, response>>

dateVars == <<now, server_tz, dcall>>
rankVars == <<rcall, enabled>>
searchVars == <<db, req, pc, filter_query, events, calls, response>>

-----------------------------------------------------------------------------
(* Bounds of the model *)

\* reference instants are taken on the days 0..MaxRefDay (Monday 2024-01-01
\* onwards) and on a few days at the ends of months
MaxRefDay == 7

\* a query has at most MaxWords words
MaxWords == 2

\* filter_events_by_day_type is given at most MaxFilterLen events
MaxFilterLen == 1

\* the ranking step is given at most MaxCandidates candidates
MaxCandidates == 16

\* the answer of the ranking service holds at most MaxAnswer records
MaxAnswer == 2

\* the document store holds at most MaxDb events
MaxDb == 2

\* a request asks for a page up to MaxPage
MaxPage == 2

-----------------------------------------------------------------------------
(* datetime, timedelta and the calendar *)

HourMs == 60 * 60 * 1000
DayMs == 24 * HourMs
EndOfDaySec == DayMs - 1000      \* 23:59:59.000
EndOfDay == DayMs - 1            \* 23:59:59.999

DT(d, m, z) == [day |-> d, ms |-> m, tz |-> z]

\* dt + timedelta(days=d, milliseconds=m)
Plus(dt, d, m) ==
    LET total == dt.ms + m
    IN  [day |-> dt.day + d + (total \div DayMs), ms |-> total % DayMs, tz |-> dt.tz]

\* dt.replace(hour=.., minute=.., second=.., microsecond=..)
ReplaceTime(dt, m) == [dt EXCEPT !.ms = m]

\* a <= b, a < b for datetimes of the same awareness
Le(a, b) == a.day < b.day \/ (a.day = b.day /\ a.ms <= b.ms)
Lt(a, b) == a.day < b.day \/ (a.day = b.day /\ a.ms < b.ms)

\* datetime.weekday(): Monday = 0 .. Sunday = 6
Weekday(dt) == dt.day % 7

IsLeap(y) == (y % 4 = 0 /\ y % 100 # 0) \/ y % 400 = 0

DaysInMonth(y, m) ==
    IF m = 2 THEN (IF IsLeap(y) THEN 29 ELSE 28)
    ELSE IF m \in {4, 6, 9, 11} THEN 30 ELSE 31

DaysInYear(y) == IF IsLeap(y) THEN 366 ELSE 365

RECURSIVE DaysBeforeYear(_)
DaysBeforeYear(y) == IF y <= 2024 THEN 0 ELSE DaysBeforeYear(y - 1) + DaysInYear(y - 1)

RECURSIVE DaysBeforeMonth(_, _)
DaysBeforeMonth(y, m) == IF m <= 1 THEN 0 ELSE DaysBeforeMonth(y, m - 1) + DaysInMonth(y, m - 1)

\* the day number of the civil date y-m-d
Ordinal(y, m, d) == DaysBeforeYear(y) + DaysBeforeMonth(y, m) + d - 1

RECURSIVE YearFrom(_, _)
YearFrom(y, day) == IF day < DaysInYear(y) THEN y ELSE YearFrom(y + 1, day - DaysInYear(y))

YearOf(dt) == YearFrom(2024, dt.day)

RECURSIVE MonthFrom(_, _, _)
MonthFrom(y, m, rest) ==
    IF rest < DaysInMonth(y, m) THEN m ELSE MonthFrom(y, m + 1, rest - DaysInMonth(y, m))

MonthOf(dt) == MonthFrom(YearOf(dt), 1, dt.day - DaysBeforeYear(YearOf(dt)))

DayOfMonth(dt) == dt.day - Ordinal(YearOf(dt), MonthOf(dt), 1) + 1

\* the result of a call that may raise
Ok(v) == [raised |-> FALSE, val |-> v]
Raised(v) == [raised |-> TRUE, val |-> v]

NoDT == DT(0, 0, "none")
NoRange == [start |-> NoDT, end |-> NoDT]
Range(s, e) == [start |-> s, end |-> e]

\* dt.replace(year=y, month=m, day=d): ValueError when y-m-d is no date
ReplaceDate(dt, y, m, d) ==
    IF m \in 1..12 /\ d \in 1..DaysInMonth(y, m)
    THEN Ok([dt EXCEPT !.day = Ordinal(y, m, d)])
    ELSE Raised(NoDT)

-----------------------------------------------------------------------------
(* utils/date_utils.py *)

DubaiOffsetMs == 4 * HourMs

\* datetime.now(DUBAI_TZ)
get_dubai_now == [(Plus(now, 0, DubaiOffsetMs)) EXCEPT !.tz = "dubai"]

\* datetime.utcnow()
get_utc_now == [now EXCEPT !.tz = "naive"]

\* datetime.now(): the naive local time of the server
local_now ==
    IF server_tz = "dubai" THEN [(Plus(now, 0, DubaiOffsetMs)) EXCEPT !.tz = "naive"]
    ELSE [now EXCEPT !.tz = "naive"]

convert_to_dubai_time(dt) ==
    IF dt.tz = "dubai" THEN dt
    ELSE [(Plus(dt, 0, DubaiOffsetMs)) EXCEPT !.tz = "dubai"]

convert_to_utc(dt) ==
    IF dt.tz = "utc" THEN [dt EXCEPT !.tz = "naive"]
    ELSE [(Plus(dt, 0, 0 - DubaiOffsetMs)) EXCEPT !.tz = "naive"]

is_weekend_day(dt) == Weekday(convert_to_dubai_time(dt)) \in {5, 6}

is_weekday(dt) == ~is_weekend_day(dt)

get_week_start_end(dt) ==
    LET dubai_dt == convert_to_dubai_time(dt)
        days_since_monday == Weekday(dubai_dt)
        week_start == ReplaceTime(Plus(dubai_dt, 0 - days_since_monday, 0), 0)
        week_end == Plus(week_start, 6, EndOfDaySec)
    IN  Range(convert_to_utc(week_start), convert_to_utc(week_end))

\* mutant: the weekend taken as Friday and Saturday
SaturdayOffsetFriday(dubai_dt) == (4 - Weekday(dubai_dt)) % 7

SaturdayOffset(dubai_dt) ==
    LET days_since_monday == Weekday(dubai_dt)
        saturday_offset == (5 - days_since_monday) % 7
    IN  IF saturday_offset = 0 /\ Weekday(dubai_dt) > 5
        THEN 7 - days_since_monday + 5
        ELSE saturday_offset

get_weekend_start_end(dt) ==
    LET dubai_dt == convert_to_dubai_time(dt)
        saturday == Plus(dubai_dt, SaturdayOffset(dubai_dt), 0)
        saturday_start == ReplaceTime(saturday, 0)
        sunday_end == Plus(saturday_start, 1, EndOfDaySec)
    IN  Range(convert_to_utc(saturday_start), convert_to_utc(sunday_end))

\* replace(day=1) is always a date, so this never raises
get_month_start_end(dt) ==
    LET dubai_dt == convert_to_dubai_time(dt)
        y == YearOf(dubai_dt)
        m == MonthOf(dubai_dt)
        month_start == ReplaceTime(ReplaceDate(dubai_dt, y, m, 1).val, 0)
        next_month == IF m = 12 THEN ReplaceDate(dubai_dt, y + 1, 1, 1)
                      ELSE ReplaceDate(dubai_dt, y, m + 1, 1)
        month_end == ReplaceTime(Plus(next_month.val, -1, 0), EndOfDay)
    IN  IF next_month.raised THEN Raised(NoRange)
        ELSE Ok(Range(convert_to_utc(month_start), convert_to_utc(month_end)))

RangeKinds == {"today", "tomorrow", "this_week", "next_week", "this_weekend",
               "next_weekend", "this_month", "next_month"}
DayTypeKinds == {"weekdays", "weekends"}
DateFilterKinds == RangeKinds \cup DayTypeKinds

TodayRange(reference_date) ==
    Range(convert_to_utc(ReplaceTime(reference_date, 0)),
          convert_to_utc(ReplaceTime(reference_date, EndOfDay)))

\* reference_date: a datetime, or NoDT for None
calculate_date_range(range_type, ref) ==
    LET reference_date == IF ref = NoDT THEN get_dubai_now ELSE convert_to_dubai_time(ref)
    IN  CASE range_type = "today" -> Ok(TodayRange(reference_date))
          [] range_type = "tomorrow" -> Ok(TodayRange(Plus(reference_date, 1, 0)))
          [] range_type = "this_week" -> Ok(get_week_start_end(reference_date))
          [] range_type = "next_week" -> Ok(get_week_start_end(Plus(reference_date, 7, 0)))
          [] range_type = "this_weekend" -> Ok(get_weekend_start_end(reference_date))
          [] range_type = "next_weekend" ->
                \* both branches of the comparison with utcnow return the same range
                Ok(get_weekend_start_end(Plus(reference_date, 7, 0)))
          [] range_type = "this_month" -> get_month_start_end(reference_date)
          [] range_type = "next_month" ->
                LET y == YearOf(reference_date)
                    m == MonthOf(reference_date)
                    d == DayOfMonth(reference_date)
                    next_month == IF m = 12 THEN ReplaceDate(reference_date, y + 1, 1, d)
                                  ELSE ReplaceDate(reference_date, y, m + 1, d)
                IN  IF next_month.raised THEN Raised(NoRange)
                    ELSE get_month_start_end(next_month.val)
          [] OTHER -> Ok(TodayRange(reference_date))

-----------------------------------------------------------------------------
(* Query text.  A query is the sequence of its whitespace-separated words,  *)
(* lower-cased; `pattern in query_lower` is the substring test of Python.   *)

\* the words a query of the model is made of
Vocab == {"kids", "family", "children", "weekend", "week", "this", "next", "month",
          "today", "tomorrow", "weekdays", "free", "marina", "music", "outdoor",
          "nightlife", "party", "the", "(kids"}

\* the strings of the code's keyword lists that occur inside a word
\* (besides the word itself)
InnerStrings(w) ==
    CASE w = "kids" -> {"kid"}
      [] w = "(kids" -> {"kids", "kid"}
      [] w = "children" -> {"child"}
      [] w = "weekend" -> {"week"}
      [] w = "weekdays" -> {"week"}
      [] w = "party" -> {"art"}
      [] OTHER -> {}

\* the strings of the keyword lists that a word starts with / ends with
Prefixes(w) ==
    CASE w = "kids" -> {"kids", "kid"}
      [] w = "children" -> {"children", "child"}
      [] w = "weekend" -> {"weekend", "week"}
      [] w = "weekdays" -> {"weekdays", "week"}
      [] OTHER -> {w}

Suffixes(w) ==
    CASE w = "party" -> {"party", "art"}
      [] w = "(kids" -> {"(kids", "kids"}
      [] OTHER -> {w}

\* `p in word` for a pattern p without a space
InWord(p, w) == p = w \/ p \in InnerStrings(w)

\* `phrase in query_lower`: phrase is the sequence of the words of the pattern
Contains(query, phrase) ==
    LET n == Len(phrase)
    IN  IF n = 1
        THEN \E i \in 1..Len(query) : InWord(phrase[1], query[i])
        ELSE \E i \in 1..(Len(query) - n + 1) :
                /\ phrase[1] \in Suffixes(query[i])
                /\ phrase[n] \in Prefixes(query[i + n - 1])
                /\ \A j \in 2..(n - 1) : phrase[j] = query[i + j - 1]

\* any(p in query_lower for p in phrases)
ContainsAny(query, phrases) == \E p \in phrases : Contains(query, p)

\* re.search(r'\b(w1\s+w2 ...)\b', query_lower): each element of pattern is the
\* set of the alternatives of one word
WordMatch(query, pattern) ==
    \E i \in 1..(Len(query) - Len(pattern) + 1) :
        \A j \in 1..Len(pattern) : query[i + j - 1] \in pattern[j]

-----------------------------------------------------------------------------
(* utils/temporal_parser.py *)

Weekdays5 == {"monday", "tuesday", "wednesday", "thursday", "friday"}

\* self.temporal_patterns, in the order of the dict
temporal_patterns == <<
    [pattern |-> <<{"today", "tonight"}>>, filter |-> "today"],
    [pattern |-> <<{"tomorrow"}>>, filter |-> "tomorrow"],
    [pattern |-> <<{"this"}, {"week"}>>, filter |-> "this_week"],
    [pattern |-> <<{"next"}, {"week"}>>, filter |-> "next_week"],
    [pattern |-> <<{"coming"}, {"week"}>>, filter |-> "next_week"],
    [pattern |-> <<{"this"}, {"weekend"}>>, filter |-> "this_weekend"],
    [pattern |-> <<{"next"}, {"weekend"}>>, filter |-> "next_weekend"],
    [pattern |-> <<{"coming"}, {"weekend"}>>, filter |-> "next_weekend"],
    [pattern |-> <<{"this"}, {"saturday"}>>, filter |-> "this_weekend"],
    [pattern |-> <<{"this"}, {"sunday"}>>, filter |-> "this_weekend"],
    [pattern |-> <<{"weekend", "weekends"}>>, filter |-> "weekends"],
    [pattern |-> <<{"weekday", "weekdays"}>>, filter |-> "weekdays"],
    [pattern |-> <<{"during"}, {"the"}, {"week"}>>, filter |-> "weekdays"],
    [pattern |-> <<{"monday"}, {"to"}, {"friday"}>>, filter |-> "weekdays"],
    [pattern |-> <<{"mon-fri"}>>, filter |-> "weekdays"],
    [pattern |-> <<{"this"}, {"month"}>>, filter |-> "this_month"],
    [pattern |-> <<{"next"}, {"month"}>>, filter |-> "next_month"],
    [pattern |-> <<{"coming"}, {"month"}>>, filter |-> "next_month"],
    [pattern |-> <<{"next"}, Weekdays5>>, filter |-> "next_week"],
    [pattern |-> <<{"next"}, {"saturday", "sunday"}>>, filter |-> "next_weekend"],
    [pattern |-> <<{"this"}, Weekdays5>>, filter |-> "this_week"],
    [pattern |-> <<{"in"}, {"a"}, {"few"}, {"days"}>>, filter |-> "this_week"],
    [pattern |-> <<{"later"}, {"this"}, {"week"}>>, filter |-> "this_week"],
    [pattern |-> <<{"early"}, {"next"}, {"week"}>>, filter |-> "next_week"] >>

\* the loop of parse_temporal_expression: the first pattern that matches, "none" for None
RECURSIVE FirstPattern(_, _)
FirstPattern(query, k) ==
    IF k > Len(temporal_patterns) THEN "none"
    ELSE IF WordMatch(query, temporal_patterns[k].pattern) THEN temporal_patterns[k].filter
    ELSE FirstPattern(query, k + 1)

\* the date_filter, date_from and date_to of the dict parse_temporal_expression returns;
\* an exception of calculate_date_range is swallowed
parse_temporal_expression(query) ==
    LET date_filter == FirstPattern(query, 1)
        r == calculate_date_range(date_filter, NoDT)
        has_range == date_filter # "none" /\ date_filter \notin {"weekdays", "weekends"}
                     /\ ~r.raised
    IN  [date_filter |-> date_filter,
         date_from |-> IF has_range THEN r.val.start ELSE NoDT,
         date_to |-> IF has_range THEN r.val.end ELSE NoDT]

\* the date keys of the dict enhance_query_analysis returns: the parser's
\* date_filter replaces that of ai_analysis when it found one, and its date_from
\* and date_to replace those of ai_analysis only when they are set.  The other
\* keys (family_friendly, age_group, location_preferences, confidence) are merged
\* independently of these
enhance_query_analysis(query, ai_analysis) ==
    LET temporal_data == parse_temporal_expression(query)
        found == temporal_data.date_filter # "none"
    IN  [date_filter |-> IF found THEN temporal_data.date_filter ELSE ai_analysis.date_filter,
         date_from |-> IF found /\ temporal_data.date_from # NoDT
                       THEN temporal_data.date_from ELSE ai_analysis.date_from,
         date_to |-> IF found /\ temporal_data.date_to # NoDT
                     THEN temporal_data.date_to ELSE ai_analysis.date_to]

-----------------------------------------------------------------------------
(* Retrieval predicates.  A dict is the sequence of its entries in insertion *)
(* order; d[k] = v replaces the entry of key k or appends one.               *)

\* the clause {field: {cmp: v}} on a date field
DateCmp(field, cmp, v) == [t |-> "date", field |-> field, cmp |-> cmp, v |-> v]
\* the clause {field: {"$gte": lo, "$lte": hi}} on a date field
DateBetween(field, lo, hi) == [t |-> "between", field |-> field, lo |-> lo, hi |-> hi]
NumCmp(field, cmp, v) == [t |-> "num", field |-> field, cmp |-> cmp, v |-> v]
StrEq(field, v) == [t |-> "str", field |-> field, v |-> v]
BoolEq(field, v) == [t |-> "bool", field |-> field, v |-> v]
StrIn(field, vs) == [t |-> "in", field |-> field, vs |-> vs]
\* {field: {"$regex": q}} for the whole text of a query
RegexPhrase(field, words) == [t |-> "phrase", field |-> field, words |-> words]
Regex(field, pattern) == [t |-> "regex", field |-> field, pattern |-> pattern]
Or(args) == [t |-> "$or", args |-> args]
Nor(args) == [t |-> "$nor", args |-> args]
And(args) == [t |-> "$and", args |-> args]

Entry(k, v) == [key |-> k, val |-> v]

HasKey(d, k) == \E i \in 1..Len(d) : d[i].key = k

\* d[k] = v
DictSet(d, k, v) ==
    IF HasKey(d, k)
    THEN [i \in 1..Len(d) |-> IF d[i].key = k THEN Entry(k, v) ELSE d[i]]
    ELSE Append(d, Entry(k, v))

\* d[k], for a key of d
DictGet(d, k) == d[CHOOSE i \in 1..Len(d) : d[i].key = k].val

\* d.pop(k, None)
DictPop(d, k) == SelectSeq(d, LAMBDA e : e.key # k)

\* get_smart_date_query (temporal_parser.py) and get_events_date_filter_query
\* (date_utils.py): the predicate is <<>> for {} and else the $and list of the two
\* start_date clauses
start_date_clauses(date_filter) ==
    LET r == calculate_date_range(date_filter, NoDT)
    IN  IF r.raised THEN <<>>
        ELSE << DateCmp("start_date", "$gte", r.val.start),
                DateCmp("start_date", "$lte", r.val.end) >>

get_smart_date_query(date_filter) ==
    IF date_filter = "none" THEN <<>>
    ELSE IF date_filter \in {"weekdays", "weekends"} THEN <<>>
    ELSE start_date_clauses(date_filter)

get_events_date_filter_query(date_filter) ==
    IF date_filter \in {"weekdays", "weekends"} THEN <<>>
    ELSE start_date_clauses(date_filter)

\* filter_events_by_day_type: an event is [id, start_date, end_date], NoDT for an
\* absent date, dates as the store returns them (naive UTC datetimes)
KeepByDayType(event, day_type) ==
    IF day_type = "weekends"
    THEN LET r == calculate_date_range("this_weekend", NoDT).val
             event_start == event.start_date
             event_end == IF event.end_date = NoDT THEN event_start ELSE event.end_date
         IN  /\ event_start # NoDT
             /\ Le(event_start, r.end)
             /\ Le(r.start, event_end)
    ELSE IF day_type = "weekdays"
    THEN event.start_date # NoDT /\ is_weekday(event.start_date)
    ELSE FALSE

filter_events_by_day_type(evs, day_type) ==
    SelectSeq(evs, LAMBDA event : KeepByDayType(event, day_type))

-----------------------------------------------------------------------------
(* routers/events.py: the predicate of get_events.  p holds the query       *)
(* parameters, "none" for None (NoDT for a date).                          *)

GetEventsDateFilter(p, d) ==
    LET active_date_filter == IF p.date_filter \notin {"none", ""} THEN p.date_filter
                              ELSE p.date_range
        current_time == get_utc_now
        r == calculate_date_range(active_date_filter, NoDT)
    IN  IF active_date_filter \notin {"none", "", "all"}
        THEN IF r.raised
             THEN DictSet(d, "end_date", DateCmp("end_date", "$gte", current_time))
             ELSE DictSet(DictPop(d, "end_date"), "$and",
                          And(<< DateCmp("start_date", "$lte", r.val.end),
                                 DateCmp("end_date", "$gte", r.val.start) >>))
        ELSE DictSet(d, "end_date", DateCmp("end_date", "$gte", current_time))

GetEventsStartDate(p, d) ==
    IF p.date_from # NoDT /\ p.date_to # NoDT
    THEN DictSet(d, "start_date", DateBetween("start_date", p.date_from, p.date_to))
    ELSE IF p.date_from # NoDT
    THEN DictSet(d, "start_date", DateCmp("start_date", "$gte", p.date_from))
    ELSE IF p.date_to # NoDT
    THEN DictSet(d, "start_date", DateCmp("start_date", "$lte", p.date_to))
    ELSE d

GetEventsPrice(p, d) ==
    IF p.price_min = "0" /\ p.price_max = "0"
    THEN DictSet(d, "$or", Or(<< Regex("price", "free"), NumCmp("price_data.min", "$eq", 0),
                                 NumCmp("price_data.max", "$eq", 0) >>))
    ELSE d

GetEventsCategory(p, d) ==
    IF p.category \notin {"none", ""}
    THEN DictSet(d, "$or", Or(<< StrEq("category", p.category),
                                 StrIn("tags", {p.category}) >>))
    ELSE d

GetEventsArea(p, d) ==
    IF p.area \notin {"none", ""}
    THEN DictSet(d, "location", Regex("location", p.area))
    ELSE d

GetEventsFamily(p, d) ==
    IF p.family_friendly # "none"
    THEN DictSet(d, "is_family_friendly", BoolEq("is_family_friendly", p.family_friendly = "true"))
    ELSE d

GetEventsAgeGroup(p, d) ==
    IF p.age_group = "child"
    THEN DictSet(DictSet(d, "age_min", NumCmp("age_min", "$lte", 12)),
                 "age_max", NumCmp("age_max", "$gte", 0))
    ELSE IF p.age_group = "teen"
    THEN DictSet(DictSet(d, "age_min", NumCmp("age_min", "$lte", 18)),
                 "age_max", NumCmp("age_max", "$gte", 13))
    ELSE IF p.age_group = "adult"
    THEN DictSet(DictSet(d, "age_min", NumCmp("age_min", "$lte", 99)),
                 "age_max", NumCmp("age_max", "$gte", 18))
    ELSE IF p.age_group = "family"
    THEN DictSet(d, "is_family_friendly", BoolEq("is_family_friendly", TRUE))
    ELSE d

GetEventsNear(p, d) ==
    IF p.latitude # "none" /\ p.longitude # "none"
    THEN DictSet(d, "location", [t |-> "near", field |-> "location",
                                 longitude |-> p.longitude, latitude |-> p.latitude])
    ELSE d

\* filter_query of get_events, built in the order of the code
get_events_filter(p) ==
    GetEventsNear(p,
     GetEventsAgeGroup(p,
      GetEventsFamily(p,
       GetEventsArea(p,
        GetEventsCategory(p,
         GetEventsPrice(p,
          GetEventsStartDate(p,
           GetEventsDateFilter(p, << Entry("status", StrEq("status", "active")) >>))))))))

NoParams == [category |-> "none", area |-> "none", date_from |-> NoDT, date_to |-> NoDT,
             date_filter |-> "none", date_range |-> "none", price_min |-> "none",
             price_max |-> "none", age_group |-> "none", family_friendly |-> "none",
             latitude |-> "none", longitude |-> "none"]

-----------------------------------------------------------------------------
(* routers/ai_search_optimized.py: temporal detection of optimized_ai_search *)

\* the weekend of the branch "this weekend" / "weekend"; lnow is datetime.now()
OptWeekendRange(lnow) ==
    LET midnight == ReplaceTime(lnow, 0)
        days_until_saturday == (5 - Weekday(lnow)) % 7
        weekend_start ==
            IF Weekday(lnow) >= 5
            THEN (IF Weekday(lnow) = 5 THEN midnight ELSE Plus(midnight, -1, 0))
            ELSE Plus(midnight, IF days_until_saturday = 0 THEN 7 ELSE days_until_saturday, 0)
    IN  Range(weekend_start, Plus(weekend_start, 1, EndOfDay))

OptNextWeekendRange(lnow) ==
    LET d == (5 - Weekday(lnow)) % 7
        days_until_saturday == IF d = 0 THEN 7 ELSE d
        next_weekend_start == Plus(ReplaceTime(lnow, 0), days_until_saturday + 7, 0)
    IN  Range(next_weekend_start, Plus(next_weekend_start, 1, EndOfDay))

OptWeekRange(lnow, weeks) ==
    LET monday == Plus(ReplaceTime(lnow, 0), 7 * weeks - Weekday(lnow), 0)
    IN  Range(monday, Plus(monday, 6, EndOfDay))

\* the first day of the month `months` after the month of lnow, at 00:00
FirstOfMonth(lnow, months) ==
    LET y == YearOf(lnow)
        m == MonthOf(lnow) + months
    IN  IF m > 12 THEN ReplaceTime(ReplaceDate(lnow, y + 1, m - 12, 1).val, 0)
        ELSE ReplaceTime(ReplaceDate(lnow, y, m, 1).val, 0)

OptMonthRange(lnow, months) ==
    Range(FirstOfMonth(lnow, months), Plus(FirstOfMonth(lnow, months + 1), 0, -1))

\* the if/elif chain of the temporal detection: the kind of the branch taken,
\* the range it computes and the form of the clause it builds
\* ("overlap": the $or of three alternatives, "start": start_date in the range)
OptTemporal(query_lower, lnow) ==
    IF ContainsAny(query_lower, {<<"today">>, <<"tonight">>}) THEN
        [kind |-> "today", form |-> "overlap",
         range |-> Range(IF Contains(query_lower, <<"tonight">>)
                         THEN ReplaceTime(lnow, 18 * HourMs) ELSE ReplaceTime(lnow, 0),
                         ReplaceTime(lnow, EndOfDay))]
    ELSE IF Contains(query_lower, <<"tomorrow">>) THEN
        [kind |-> "tomorrow", form |-> "overlap",
         range |-> Range(Plus(ReplaceTime(lnow, 0), 1, 0),
                         ReplaceTime(Plus(ReplaceTime(lnow, 0), 1, 0), EndOfDay))]
    ELSE IF Contains(query_lower, <<"this", "morning">>) THEN
        [kind |-> "this_morning", form |-> "overlap",
         range |-> Range(ReplaceTime(lnow, 6 * HourMs), ReplaceTime(lnow, 12 * HourMs))]
    ELSE IF Contains(query_lower, <<"this", "afternoon">>) THEN
        [kind |-> "this_afternoon", form |-> "overlap",
         range |-> Range(ReplaceTime(lnow, 12 * HourMs), ReplaceTime(lnow, 18 * HourMs))]
    ELSE IF ContainsAny(query_lower, {<<"this", "weekend">>, <<"weekend">>}) THEN
        [kind |-> "this_weekend", form |-> "overlap", range |-> OptWeekendRange(lnow)]
    ELSE IF ContainsAny(query_lower, {<<"this", "week">>, <<"events", "this", "week">>}) THEN
        [kind |-> "this_week", form |-> "overlap", range |-> OptWeekRange(lnow, 0)]
    ELSE IF ContainsAny(query_lower, {<<"next", "week">>, <<"events", "next", "week">>}) THEN
        [kind |-> "next_week", form |-> "overlap", range |-> OptWeekRange(lnow, 1)]
    ELSE IF Contains(query_lower, <<"next", "weekend">>) THEN
        [kind |-> "next_weekend", form |-> "overlap", range |-> OptNextWeekendRange(lnow)]
    ELSE IF ContainsAny(query_lower, {<<"this", "month">>, <<"events", "this", "month">>}) THEN
        [kind |-> "this_month", form |-> "start", range |-> OptMonthRange(lnow, 0)]
    ELSE IF ContainsAny(query_lower, {<<"next", "month">>, <<"events", "next", "month">>}) THEN
        [kind |-> "next_month", form |-> "start", range |-> OptMonthRange(lnow, 1)]
    ELSE [kind |-> "none", form |-> "none", range |-> NoRange]

-----------------------------------------------------------------------------
(* routers/ai_search_optimized.py: the retrieval predicate of               *)
(* optimized_ai_search.  query_lower is the sequence of the words of        *)
(* q.lower(); every word of Vocab has more than two letters.                *)

Min(a, b) == IF a < b THEN a ELSE b

\* sq[:n]
SubSeqTo(sq, n) == SubSeq(sq, 1, Min(n, Len(sq)))

stop_words == {"where", "can", "i", "my", "take", "what", "is", "are", "the", "a", "an",
               "to", "for", "in", "on", "at", "this", "that"}

important_short_words == {"kids", "kid", "art", "gym", "bar", "spa", "zoo", "fun"}

meaningful_keywords(keywords) ==
    SelectSeq(keywords, LAMBDA word : word \notin stop_words \/ word \in important_short_words)

\* mutant: the clause is stored under its boolean key, as filter_query["$or"] = ..
\* of get_events is, and replaces the clause already stored under it
AppendOverwriting(must_conditions, clause) ==
    IF \E k \in 1..Len(must_conditions) : must_conditions[k].t = clause.t
    THEN [k \in 1..Len(must_conditions) |->
            IF must_conditions[k].t = clause.t THEN clause ELSE must_conditions[k]]
    ELSE Append(must_conditions, clause)

\* must_conditions.append(clause)
AppendCondition(must_conditions, clause) == Append(must_conditions, clause)

TextCondition(keyword) ==
    Or(<< Regex("title", keyword), Regex("description", keyword),
          Regex("tags", keyword), Regex("category", keyword) >>)

\* must_conditions.extend(text_conditions) for meaningful_keywords[:3]
RECURSIVE TextConditions(_, _)
TextConditions(must_conditions, keywords) ==
    IF keywords = <<>> THEN must_conditions
    ELSE TextConditions(AppendCondition(must_conditions, TextCondition(Head(keywords))),
                        Tail(keywords))

\* temporal_conditions of the branch taken, for a detected temporal expression
TemporalConditions(t) ==
    IF t.form = "overlap"
    THEN Or(<< DateBetween("start_date", t.range.start, t.range.end),
               DateBetween("end_date", t.range.start, t.range.end),
               And(<< DateCmp("start_date", "$lte", t.range.start),
                      DateCmp("end_date", "$gte", t.range.end) >>) >>)
    ELSE DateBetween("start_date", t.range.start, t.range.end)

PriceConditions(query_lower, must_conditions) ==
    IF ContainsAny(query_lower, {<<"free">>, <<"free", "events">>})
    THEN AppendCondition(must_conditions,
            Or(<< Regex("price", "free"), NumCmp("pricing.base_price", "$eq", 0),
                  StrEq("price", "0"), StrEq("price", "Free") >>))
    ELSE IF ContainsAny(query_lower, {<<"cheap">>, <<"budget">>, <<"affordable">>})
    THEN AppendCondition(must_conditions,
            Or(<< NumCmp("pricing.base_price", "$lte", 50), NumCmp("price_data.min", "$lte", 50) >>))
    ELSE IF ContainsAny(query_lower, {<<"expensive">>, <<"premium">>, <<"luxury">>})
    THEN AppendCondition(must_conditions,
            Or(<< NumCmp("pricing.base_price", "$gte", 200), NumCmp("price_data.min", "$gte", 200) >>))
    ELSE must_conditions

\* location_matches, in the order of the dict
location_matches == <<
    [area |-> "downtown", patterns |-> {<<"downtown">>, <<"dubai", "mall">>, <<"burj", "khalifa">>}],
    [area |-> "marina", patterns |-> {<<"marina">>, <<"marina", "walk">>, <<"marina", "mall">>}],
    [area |-> "jbr", patterns |-> {<<"jbr">>, <<"jumeirah", "beach", "residence">>,
                                   <<"the", "beach">>, <<"the", "walk">>}],
    [area |-> "business bay", patterns |-> {<<"business", "bay">>}],
    [area |-> "difc", patterns |-> {<<"difc">>, <<"financial", "centre">>}],
    [area |-> "jumeirah", patterns |-> {<<"jumeirah">>, <<"jumeirah", "beach">>}],
    [area |-> "deira", patterns |-> {<<"deira">>, <<"old", "dubai">>, <<"gold", "souk">>}] >>

\* the first entry of a table one of whose patterns is in the query, 0 for none
RECURSIVE FirstMatch(_, _, _)
FirstMatch(query_lower, table, k) ==
    IF k > Len(table) THEN 0
    ELSE IF ContainsAny(query_lower, table[k].patterns) THEN k
    ELSE FirstMatch(query_lower, table, k + 1)

LocationConditions(query_lower, must_conditions) ==
    LET k == FirstMatch(query_lower, location_matches, 1)
        area == location_matches[k].area
    IN  IF k = 0 THEN must_conditions
        ELSE AppendCondition(must_conditions,
                Or(<< Regex("venue.area", area), Regex("location", area), Regex("address", area) >>))

\* category_matches, in the order of the dict
category_matches == <<
    [category |-> "music", patterns |-> {<<"concerts">>, <<"music">>, <<"concert">>}],
    [category |-> "arts", patterns |-> {<<"art">>, <<"exhibitions">>, <<"exhibition">>, <<"gallery">>}],
    [category |-> "sports", patterns |-> {<<"sports">>, <<"fitness">>, <<"workout">>, <<"gym">>}],
    [category |-> "dining", patterns |-> {<<"restaurant">>, <<"dining">>, <<"food">>,
                                          <<"brunch">>, <<"dinner">>}],
    [category |-> "nightlife", patterns |-> {<<"nightlife">>, <<"bar">>, <<"club">>, <<"nightclub">>}],
    [category |-> "cultural", patterns |-> {<<"cultural">>, <<"museum">>, <<"heritage">>}],
    [category |-> "educational", patterns |-> {<<"workshops">>, <<"classes">>, <<"workshop">>,
                                               <<"class">>, <<"learning">>}] >>

CategoryConditions(query_lower, must_conditions) ==
    LET k == FirstMatch(query_lower, category_matches, 1)
        category == category_matches[k].category
    IN  IF k = 0 THEN must_conditions
        ELSE AppendCondition(must_conditions,
                Or(<< StrEq("category", category), StrEq("primary_category", category),
                      StrEq("secondary_categories", category),
                      StrIn("tags", {p[1] : p \in category_matches[k].patterns}) >>))

FamilyInclusion ==
    Or(<< BoolEq("is_family_friendly", TRUE), NumCmp("familyScore", "$gte", 70),
          StrIn("tags", {"family-friendly", "family", "kids", "children"}),
          NumCmp("age_min", "$lte", 12),
          StrIn("category", {"family", "educational", "cultural", "arts"}),
          StrIn("primary_category", {"family", "educational", "cultural", "arts"}) >>)

AdultExclusion ==
    Nor(<< NumCmp("age_min", "$gte", 18),
           StrIn("tags", {"nightlife", "18+", "adult-only", "adults-only"}),
           StrEq("category", "nightlife"), StrEq("primary_category", "nightlife") >>)

FamilyOnlyInclusion ==
    Or(<< BoolEq("is_family_friendly", TRUE), NumCmp("familyScore", "$gte", 70),
          StrIn("tags", {"family-friendly", "family", "kids"}) >>)

AdultsOnly ==
    Or(<< NumCmp("age_min", "$gte", 18), Regex("age_restrictions", "18+") >>)

FamilyConditions(query_lower, must_conditions) ==
    IF ContainsAny(query_lower, {<<"kids">>, <<"kid">>, <<"children">>, <<"child">>})
    THEN AppendCondition(AppendCondition(must_conditions, FamilyInclusion), AdultExclusion)
    ELSE IF ContainsAny(query_lower, {<<"family">>, <<"family-friendly">>, <<"family", "events">>})
    THEN AppendCondition(must_conditions, FamilyOnlyInclusion)
    ELSE IF ContainsAny(query_lower, {<<"adults", "only">>, <<"adult", "only">>, <<"18+">>})
    THEN AppendCondition(must_conditions, AdultsOnly)
    ELSE must_conditions

VenueConditions(query_lower, must_conditions) ==
    IF ContainsAny(query_lower, {<<"outdoor">>, <<"outdoor", "activities">>})
    THEN AppendCondition(must_conditions,
            Or(<< StrEq("venue_type", "outdoor"), StrEq("indoor_outdoor", "outdoor") >>))
    ELSE IF ContainsAny(query_lower, {<<"indoor">>, <<"indoor", "activities">>})
    THEN AppendCondition(must_conditions,
            Or(<< StrEq("venue_type", "indoor"), StrEq("indoor_outdoor", "indoor") >>))
    ELSE must_conditions

\* must_conditions once every detection has run (lines 56-373)
MustConditions(query_lower, lnow) ==
    LET temporal == OptTemporal(query_lower, lnow)
        detected ==
            VenueConditions(query_lower,
             FamilyConditions(query_lower,
              CategoryConditions(query_lower,
               LocationConditions(query_lower,
                PriceConditions(query_lower,
                 TextConditions(<<>>, SubSeqTo(meaningful_keywords(query_lower), 3)))))))
    IN  IF temporal.kind # "none"
        THEN AppendCondition(detected, TemporalConditions(temporal))
        ELSE detected

\* base_filter
BaseFilter(current_time) ==
    << Entry("status", StrEq("status", "active")),
       Entry("end_date", DateCmp("end_date", "$gte", current_time)) >>

\* filter_query of optimized_ai_search (lines 369-377)
OptimizedFilterQuery(query_lower, lnow) ==
    LET must_conditions == MustConditions(query_lower, lnow)
    IN  IF Len(must_conditions) > 0
        THEN DictSet(BaseFilter(lnow), "$and", And(must_conditions))
        ELSE BaseFilter(lnow)

\* fallback_filter of optimized_ai_search (lines 426-438)
FallbackFilter(query_lower, current_time) ==
    IF ContainsAny(query_lower, {<<"kids">>, <<"kid">>, <<"children">>, <<"family">>})
    THEN DictSet(BaseFilter(current_time), "$or",
            Or(<< BoolEq("is_family_friendly", TRUE), NumCmp("familyScore", "$gte", 50),
                  StrIn("tags", {"family-friendly", "family", "kids", "children"}),
                  NumCmp("age_min", "$lte", 14) >>))
    ELSE BaseFilter(current_time)

-----------------------------------------------------------------------------
(* The document store: how db.events.find / $match evaluate a predicate.    *)
(* A stored event holds its string fields as sets of values (one value for  *)
(* a scalar, the elements for an array, the words for a text, none for an   *)
(* absent field), its numbers as naturals with Absent for an absent field,  *)
(* and its dates as naive UTC datetimes.                                    *)

Absent == 0 - 1

\* the value the driver stores for a datetime of a predicate: an aware datetime is
\* converted to UTC, a naive one is taken as UTC
StoreInstant(v) ==
    IF v.tz = "dubai" THEN Plus(v, 0, 0 - DubaiOffsetMs) ELSE v

DateField(event, field) ==
    IF field = "start_date" THEN event.start_date ELSE event.end_date

NumField(event, field) ==
    IF field = "familyScore" THEN event.familyScore
    ELSE IF field = "age_min" THEN event.age_min
    ELSE IF field = "pricing.base_price" THEN event.base_price
    ELSE Absent

StrField(event, field) ==
    IF field = "title" THEN {event.title[k] : k \in 1..Len(event.title)}
    ELSE IF field = "tags" THEN event.tags
    ELSE IF field = "category" THEN event.category
    ELSE IF field = "primary_category" THEN event.primary_category
    ELSE IF field = "status" THEN event.status
    ELSE IF field = "price" THEN event.price
    ELSE IF field = "venue.area" THEN event.area
    ELSE IF field = "venue_type" THEN event.venue_type
    ELSE {}

Compare(a, cmp, b) ==
    IF cmp = "$gte" THEN a >= b
    ELSE IF cmp = "$lte" THEN a <= b
    ELSE a = b

CompareDates(a, cmp, b) ==
    IF cmp = "$gte" THEN Le(b, a) ELSE Le(a, b)

\* {"$regex": pattern, "$options": "i"} on one value
RegexMatch(pattern, value) ==
    \/ InWord(pattern, value)
    \/ (pattern = "free" /\ value = "Free")

RECURSIVE Eval(_, _)
Eval(node, event) ==
    IF node.t = "date"
    THEN /\ DateField(event, node.field) # NoDT
         /\ CompareDates(DateField(event, node.field), node.cmp, StoreInstant(node.v))
    ELSE IF node.t = "between"
    THEN /\ DateField(event, node.field) # NoDT
         /\ Le(StoreInstant(node.lo), DateField(event, node.field))
         /\ Le(DateField(event, node.field), StoreInstant(node.hi))
    ELSE IF node.t = "num"
    THEN /\ NumField(event, node.field) # Absent
         /\ Compare(NumField(event, node.field), node.cmp, node.v)
    ELSE IF node.t = "str" THEN node.v \in StrField(event, node.field)
    ELSE IF node.t = "bool" THEN node.v \in event.is_family_friendly
    ELSE IF node.t = "in" THEN StrField(event, node.field) \cap node.vs # {}
    ELSE IF node.t = "regex"
    THEN \E value \in StrField(event, node.field) : RegexMatch(node.pattern, value)
    \* a pattern of several words matches inside a text only
    ELSE IF node.t = "phrase"
    THEN IF node.field = "title" THEN Contains(event.title, node.words)
         ELSE /\ Len(node.words) = 1
              /\ \E value \in StrField(event, node.field) : RegexMatch(node.words[1], value)
    ELSE IF node.t = "$or" THEN \E k \in 1..Len(node.args) : Eval(node.args[k], event)
    ELSE IF node.t = "$nor" THEN \A k \in 1..Len(node.args) : ~Eval(node.args[k], event)
    ELSE IF node.t = "$and" THEN \A k \in 1..Len(node.args) : Eval(node.args[k], event)
    ELSE FALSE

\* a document matches a predicate when it matches the clause of every key
Matches(predicate, event) ==
    \A k \in 1..Len(predicate) : Eval(predicate[k].val, event)

\* the words of the model that are no regular expression: "(kids" lacks its ")"
ValidRegex(pattern) == pattern # "(kids"

\* the store compiles every $regex of a predicate before it runs the query, and
\* fails the operation when one of them is no regular expression
RECURSIVE HasInvalidRegex(_)
HasInvalidRegex(node) ==
    IF node.t = "regex" THEN ~ValidRegex(node.pattern)
    ELSE IF node.t = "phrase" THEN \E k \in 1..Len(node.words) : ~ValidRegex(node.words[k])
    ELSE IF node.t \in {"$or", "$nor", "$and"}
    THEN \E k \in 1..Len(node.args) : HasInvalidRegex(node.args[k])
    ELSE FALSE

Rejects(predicate) == \E k \in 1..Len(predicate) : HasInvalidRegex(predicate[k].val)

-----------------------------------------------------------------------------
(* The answer of the external ranking service.                              *)
(*                                                                          *)
(* A call of chat.completions.create ends in a timeout, in an API error     *)
(* (non-2xx), or with a text.  A text is [wrap, payload]: payload is the    *)
(* JSON value it carries, wrap how it is written:                           *)
(*   "plain"    the JSON value alone                                        *)
(*   "fenced"   ```json <value> ```                                         *)
(*   "prose"    Here are the results: <value> Hope this helps.              *)
(*   "garbage"  a text without JSON                                         *)
(*   "null"     message.content is None                                     *)
(* A payload is [shape, typed_ok, scored, items, suggestions]:              *)
(*   "object"   the analysis object; typed_ok: keywords, ai_response and    *)
(*              suggestions have their types; scored: scored_events is      *)
(*              "missing", of a wrong type ("badtype") or the "list" items  *)
(*   "array"    the array of the items                                      *)
(*   "record"   one object that is the single item items[1]                 *)
(*   "scalar"   a number or a string                                        *)
(*   suggestions: the suggestions of the analysis object are "some" strings, *)
(*              the "empty" list, or "missing"                               *)
(* An item is [id, kind, score]: kind "record" (id, score and reason of     *)
(* the right types), "partial" (an object lacking some of them) or          *)
(* "scalar" (not an object).                                                *)

SeqsUpTo(S, n) == UNION {[1..k -> S] : k \in 0..n}

\* the ids the service answers with: a candidate's id, and an id of no candidate
AnswerIds == {"1", "x"}
ItemScores == {40, 90}

Items == {[id |-> i, kind |-> "record", score |-> sc] : i \in AnswerIds, sc \in ItemScores}
         \cup {[id |-> "1", kind |-> k, score |-> 0] : k \in {"partial", "scalar"}}

ItemLists == SeqsUpTo(Items, MaxAnswer)

Payload(shape, typed_ok, scored, items) ==
    [shape |-> shape, typed_ok |-> typed_ok, scored |-> scored, items |-> items,
     suggestions |-> "some"]

Payloads ==
    {Payload("scalar", TRUE, "missing", <<>>)}
    \cup {Payload("array", TRUE, "missing", l) : l \in ItemLists}
    \cup {Payload("record", TRUE, "missing", <<it>>) : it \in Items}
    \cup {Payload("object", ok, sc, <<>>) : ok \in BOOLEAN, sc \in {"missing", "badtype"}}
    \cup {Payload("object", ok, "list", l) : ok \in BOOLEAN, l \in ItemLists}
    \cup {[Payload("object", TRUE, "list", <<>>) EXCEPT !.suggestions = s] :
            s \in {"empty", "missing"}}

\* no call is made
NotCalled == [status |-> "not_called", wrap |-> "none", payload |-> Payload("scalar", TRUE, "missing", <<>>)]

Outcomes ==
    {[status |-> st, wrap |-> "none", payload |-> Payload("scalar", TRUE, "missing", <<>>)] :
        st \in {"timeout", "http_error"}}
    \cup {[status |-> "ok", wrap |-> w, payload |-> Payload("scalar", TRUE, "missing", <<>>)] :
            w \in {"garbage", "null"}}
    \cup {[status |-> "ok", wrap |-> w, payload |-> pl] :
            w \in {"plain", "fenced", "prose"}, pl \in Payloads}

\* the items of an answer that are JSON objects
IsObjectItem(it) == it.kind # "scalar"

\* what the object patterns find in a fenced or prose text: the object itself,
\* or the first object inside an array (re.search starts at the leftmost "{")
FirstObject(payload) ==
    IF payload.shape \in {"object", "record"} THEN Ok(payload)
    ELSE IF payload.shape = "array" /\ SelectSeq(payload.items, IsObjectItem) # <<>>
    THEN Ok(Payload("record", TRUE, "missing", <<Head(SelectSeq(payload.items, IsObjectItem))>>))
    ELSE Raised(payload)

\* json.loads(response_text): the text is the JSON value alone
DirectParse(raw) ==
    IF raw.wrap = "plain" THEN Ok(raw.payload) ELSE Raised(raw.payload)

\* the patterns ```json {..} ``` and ``` {..} ```: an object directly inside a fence
FencedBlock(raw) ==
    IF raw.wrap = "fenced" /\ raw.payload.shape \in {"object", "record"}
    THEN Ok(raw.payload) ELSE Raised(raw.payload)

\* the slice from the first { to the last }: the object of the text, when the
\* text holds one object outside any other
BraceSlice(raw) ==
    IF raw.wrap \notin {"plain", "fenced", "prose"} THEN Raised(raw.payload)
    ELSE IF raw.payload.shape \in {"object", "record"} THEN Ok(raw.payload)
    ELSE IF raw.payload.shape = "array" /\ Len(SelectSeq(raw.payload.items, IsObjectItem)) = 1
    THEN FirstObject(raw.payload)
    ELSE Raised(raw.payload)

\* the stages of OptimizedOpenAIService._extract_json_from_response in the order
\* they are tried: direct parse, the fenced patterns, the pattern of an object
\* nested at most twice, the slice { .. }
StagesOptimized(raw) ==
    <<DirectParse(raw),
      FencedBlock(raw),
      IF raw.wrap \in {"plain", "fenced", "prose"}
      THEN FirstObject(raw.payload) ELSE Raised(raw.payload),
      BraceSlice(raw)>>

\* the stages of OpenAISearchService._extract_json_from_response in the order
\* they are tried: direct parse, the fenced patterns, the object pattern {"..}
\* that ends at the first }, the array pattern [{..}], the slice { .. } and the
\* slice [ .. ]
StagesV1(raw) ==
    LET pl == raw.payload
        text == raw.wrap \in {"plain", "fenced", "prose"}
        objects == SelectSeq(pl.items, IsObjectItem)
        nested == pl.shape = "object" /\ pl.scored = "list" /\ objects # <<>>
        \* the list an array pattern can match: it starts and ends with an object
        bracketed == /\ pl.shape = "array" \/ (pl.shape = "object" /\ pl.scored = "list")
                     /\ pl.items # <<>>
                     /\ IsObjectItem(pl.items[1]) /\ IsObjectItem(pl.items[Len(pl.items)])
    IN  <<DirectParse(raw),
          FencedBlock(raw),
          \* the match ends inside a nested list of objects and does not parse
          IF text /\ ~nested THEN FirstObject(pl) ELSE Raised(pl),
          IF text /\ bracketed
          THEN Ok(Payload("array", TRUE, "missing", pl.items)) ELSE Raised(pl),
          BraceSlice(raw),
          \* an analysis object holds several lists: only an array is one [ .. ]
          IF text /\ pl.shape = "array" THEN Ok(pl) ELSE Raised(pl)>>

\* mutant: the last stage that parses gives the result
LastParse(stages, failure) ==
    IF \A k \in 1..Len(stages) : stages[k].raised THEN failure
    ELSE stages[CHOOSE k \in 1..Len(stages) :
                    /\ ~stages[k].raised
                    /\ \A j \in (k + 1)..Len(stages) : stages[j].raised]

\* each stage returns when it parses; the error is raised after the last one
FirstParse(stages, failure) ==
    IF \A k \in 1..Len(stages) : stages[k].raised THEN failure
    ELSE stages[CHOOSE k \in 1..Len(stages) :
                    /\ ~stages[k].raised
                    /\ \A j \in 1..(k - 1) : stages[j].raised]

\* OptimizedOpenAIService._extract_json_from_response(response_text)
ExtractJsonOptimized(raw) == FirstParse(StagesOptimized(raw), Raised(raw.payload))

\* OpenAISearchService._extract_json_from_response(response_text)
ExtractJsonV1(raw) == FirstParse(StagesV1(raw), Raised(raw.payload))

-----------------------------------------------------------------------------
(* services/openai_service_optimized.py and services/openai_service.py      *)

\* a score record of a result
Scored(id, score, reason) == [id |-> id, score |-> score, reason |-> reason]

\* the score records of the items of an answer, as the code takes them over
ItemRecord(it) ==
    IF it.kind = "record" THEN Scored(it.id, it.score, "ai") ELSE Scored(it.id, -1, "none")

Analysis(origin, scored_events) == [origin |-> origin, scored_events |-> scored_events]

\* OptimizedQueryAnalysis: the fields of the result the handler reads
OptimizedQueryAnalysis(origin, scored_events, suggestions) ==
    [origin |-> origin, scored_events |-> scored_events, suggestions |-> suggestions]

\* result.get("suggestions", ["Weekend events", "Family activities"])
SuggestionsOf(pl) ==
    IF pl.shape = "record" \/ pl.suggestions = "missing"
    THEN <<"Weekend events", "Family activities">>
    ELSE IF pl.suggestions = "empty" THEN <<>>
    ELSE <<"More like this">>

\* the result when the service is disabled
OptimizedDisabled ==
    OptimizedQueryAnalysis("disabled", <<>>,
                           <<"Family events", "Weekend activities", "Indoor fun">>)

\* the except branch of analyze_and_score
OptimizedFallback(evs) ==
    OptimizedQueryAnalysis("fallback",
        [k \in 1..Len(SubSeqTo(evs, 10)) |-> Scored(evs[k], 50, "Potential match")],
        <<"Try different dates", "Explore categories", "Family events">>)

\* the try block of analyze_and_score
OptimizedTry(evs, outcome) ==
    LET event_summaries == SubSeqTo(evs, 15)
        result == ExtractJsonOptimized(outcome)
        pl == result.val
    IN  IF outcome.status # "ok" THEN Raised(Analysis("error", <<>>))
        ELSE IF result.raised THEN Raised(Analysis("error", <<>>))
        \* result.get(..) of a list or a number: AttributeError
        ELSE IF pl.shape \in {"array", "scalar"} THEN Raised(Analysis("error", <<>>))
        \* an object without the fields: the defaults
        ELSE IF pl.shape = "record"
        THEN Ok(OptimizedQueryAnalysis("ai", <<>>, SuggestionsOf(pl)))
        \* pydantic ValidationError
        ELSE IF ~pl.typed_ok \/ pl.scored = "badtype" THEN Raised(Analysis("error", <<>>))
        ELSE IF pl.scored = "missing"
        THEN Ok(OptimizedQueryAnalysis("ai", <<>>, SuggestionsOf(pl)))
        ELSE IF \E k \in 1..Len(pl.items) : pl.items[k].kind = "scalar"
        THEN Raised(Analysis("error", <<>>))
        ELSE Ok(OptimizedQueryAnalysis("ai",
                    [k \in 1..Len(pl.items) |-> ItemRecord(pl.items[k])],
                    SuggestionsOf(pl)))

\* mutant: the except branch re-raises
analyze_and_score_reraise(evs, outcome) ==
    IF ~enabled.optimized THEN Ok(OptimizedDisabled)
    ELSE OptimizedTry(evs, outcome)

\* OptimizedOpenAIService.analyze_and_score(query, events)
analyze_and_score(evs, outcome) ==
    IF ~enabled.optimized THEN Ok(OptimizedDisabled)
    ELSE IF OptimizedTry(evs, outcome).raised THEN Ok(OptimizedFallback(evs))
    ELSE OptimizedTry(evs, outcome)

\* the except branch of match_events
V1Fallback(evs) ==
    Analysis("fallback", [k \in 1..Len(SubSeqTo(evs, 10)) |-> Scored(evs[k], 50, "Event available in Dubai")])

\* ScoredEvent(**result) succeeds
IsScoredEvent(it) == it.kind = "record"

\* list.sort(key=score, reverse=True): a stable sort by descending score
RECURSIVE InsertByScore(_, _)
InsertByScore(sorted, r) ==
    IF sorted = <<>> THEN <<r>>
    ELSE IF Head(sorted).score >= r.score THEN <<Head(sorted)>> \o InsertByScore(Tail(sorted), r)
    ELSE <<r>> \o sorted

RECURSIVE SortByScore(_)
SortByScore(sq) ==
    IF sq = <<>> THEN <<>>
    ELSE InsertByScore(SortByScore(SubSeq(sq, 1, Len(sq) - 1)), sq[Len(sq)])

\* the try block of match_events
V1Try(evs, outcome) ==
    LET event_summaries == SubSeqTo(evs, 10)
        result == ExtractJsonV1(outcome)
        pl == result.val
        \* a dict becomes the list of that dict; the analysis object is no ScoredEvent
        results == IF pl.shape = "object" THEN <<>> ELSE pl.items
        valid == SelectSeq(results, IsScoredEvent)
    IN  IF outcome.status # "ok" THEN Raised(Analysis("error", <<>>))
        ELSE IF result.raised THEN Raised(Analysis("error", <<>>))
        ELSE IF pl.shape = "scalar" THEN Raised(Analysis("error", <<>>))
        ELSE Ok(Analysis("ai", SortByScore([k \in 1..Len(valid) |-> ItemRecord(valid[k])])))

\* OpenAISearchService.match_events(query, events, analysis)
match_events(evs, outcome) ==
    IF ~enabled.v1 \/ evs = <<>> THEN Ok(Analysis("disabled", <<>>))
    ELSE IF V1Try(evs, outcome).raised THEN Ok(V1Fallback(evs))
    ELSE V1Try(evs, outcome)

\* the candidates: documents with the ids "1", "2", ...
IdOf(k) ==
    CASE k = 1 -> "1" [] k = 2 -> "2" [] k = 3 -> "3" [] k = 4 -> "4" [] k = 5 -> "5"
      [] k = 6 -> "6" [] k = 7 -> "7" [] k = 8 -> "8" [] k = 9 -> "9" [] k = 10 -> "10"
      [] k = 11 -> "11" [] k = 12 -> "12" [] k = 13 -> "13" [] k = 14 -> "14"
      [] k = 15 -> "15" [] k = 16 -> "16" [] k = 17 -> "17" [] k = 18 -> "18"
      [] OTHER -> "many"

Candidates(n) == [k \in 1..n |-> IdOf(k)]

-----------------------------------------------------------------------------
(* Reference instants and queries of the model *)

\* times of day (UTC): 20:00 UTC is 00:00 in Dubai
RefTimes == {0, 12 * HourMs, 20 * HourMs - 1000, 20 * HourMs - 1, 20 * HourMs, EndOfDay}

\* the first days of 2024, and days at the ends of months and of the year
RefDays == (0..MaxRefDay) \cup {Ordinal(2024, 1, 31), Ordinal(2024, 2, 29),
                                Ordinal(2024, 11, 30), Ordinal(2024, 12, 31)}

RefInstants == {DT(d, m, "utc") : d \in RefDays, m \in RefTimes}

ServerZones == {"utc", "dubai"}

\* the words of the queries given to the temporal parser
TemporalVocab == {"this", "next", "week", "weekend", "month", "today", "tomorrow",
                  "weekdays", "kids"}

TemporalQueries == SeqsUpTo(TemporalVocab, MaxWords)

\* stored events for the day-type filter: start at 10:00 Dubai time (06:00 UTC) of a
\* day of the first two weeks of 2024, lasting `days` days (-1: no end_date)
DayEvent(id, d, days) ==
    [id |-> id, start_date |-> DT(d, 6 * HourMs, "naive"),
     end_date |-> IF days < 0 THEN NoDT ELSE DT(d + days, 8 * HourMs, "naive")]

DayTypeEvents == {DayEvent(1, 4, -1),   \* Friday 5 January, a point event
                  DayEvent(2, 5, -1),   \* Saturday 6 January, a point event
                  DayEvent(3, 5, 2),    \* Saturday 6 to Monday 8 January
                  DayEvent(4, 12, 0),   \* Saturday 13 January
                  DayEvent(5, 7, 4),    \* Monday 8 to Friday 12 January
                  DayEvent(6, 2, 10),   \* Wednesday 3 to Saturday 13 January
                  [id |-> 7, start_date |-> NoDT, end_date |-> NoDT]}

NoCall == [op |-> "none"]

\* the temporal phrases of the queries
TemporalPhrases == {<<>>, <<"today">>, <<"tomorrow">>, <<"this", "week">>, <<"next", "week">>,
                    <<"weekend">>, <<"this", "weekend">>, <<"next", "weekend">>,
                    <<"this", "month">>, <<"next", "month">>}

InitDate ==
    /\ now \in RefInstants
    /\ server_tz \in ServerZones
    /\ dcall = NoCall
    /\ rcall = NoCall
    /\ enabled = [optimized |-> FALSE, v1 |-> FALSE]
    /\ db = {}
    /\ req = NoCall
    /\ pc = "idle"
    /\ filter_query = <<>>
    /\ events = <<>>
    /\ calls = <<>>
    /\ response = NoCall

\* get_weekend_start_end(dt) for the current instant as a naive UTC datetime
GetWeekendStartEnd ==
    /\ dcall.op = "none"
    /\ dcall' = [op |-> "get_weekend_start_end", range |-> get_weekend_start_end(get_utc_now)]
    /\ UNCHANGED <<now, server_tz, rcall, enabled>>
    /\ UNCHANGED searchVars

\* calculate_date_range(range_type) with the default reference date
CalculateDateRange ==
    \E range_type \in DateFilterKinds :
        /\ dcall.op = "none"
        /\ dcall' = [op |-> "calculate_date_range", range_type |-> range_type,
                     result |-> calculate_date_range(range_type, NoDT)]
        /\ UNCHANGED <<now, server_tz, rcall, enabled>>
        /\ UNCHANGED searchVars

\* the weekend branch of the temporal detection of optimized_ai_search
OptimizedWeekend ==
    /\ dcall.op = "none"
    /\ dcall' = [op |-> "optimized_weekend", lnow |-> local_now,
                 range |-> OptWeekendRange(local_now)]
    /\ UNCHANGED <<now, server_tz, rcall, enabled>>
    /\ UNCHANGED searchVars

\* the temporal detection of optimized_ai_search (lines 71-242) for a query
OptimizedTemporal ==
    \E query \in TemporalPhrases :
        /\ dcall.op = "none"
        /\ dcall' = [op |-> "optimized_temporal", query |-> query,
                     temporal |-> OptTemporal(query, local_now)]
        /\ UNCHANGED <<now, server_tz, rcall, enabled>>
        /\ UNCHANGED searchVars

\* temporal_parser.parse_temporal_expression(query)
ParseTemporalExpression ==
    \E query \in TemporalQueries :
        /\ dcall.op = "none"
        /\ dcall' = [op |-> "parse_temporal_expression", query |-> query,
                     result |-> parse_temporal_expression(query)]
        /\ UNCHANGED <<now, server_tz, rcall, enabled>>
        /\ UNCHANGED searchVars

\* the analyses of the external service given to enhance_query_analysis:
\* without dates, and with the dates of Wednesday 10 January 2024
AiAnalyses ==
    {[date_filter |-> "none", date_from |-> NoDT, date_to |-> NoDT],
     [date_filter |-> "none", date_from |-> DT(9, 0, "naive"), date_to |-> DT(9, EndOfDay, "naive")]}

\* temporal_parser.enhance_query_analysis(query, ai_analysis)
EnhanceQueryAnalysis ==
    \E query \in TemporalPhrases \cup {<<"weekdays">>}, ai_analysis \in AiAnalyses :
        /\ dcall.op = "none"
        /\ dcall' = [op |-> "enhance_query_analysis", query |-> query,
                     ai_analysis |-> ai_analysis,
                     enhanced |-> enhance_query_analysis(query, ai_analysis)]
        /\ UNCHANGED <<now, server_tz, rcall, enabled>>
        /\ UNCHANGED searchVars

\* temporal_parser.get_smart_date_query(date_filter)
GetSmartDateQuery ==
    \E date_filter \in DateFilterKinds \cup {"none"} :
        /\ dcall.op = "none"
        /\ dcall' = [op |-> "get_smart_date_query", date_filter |-> date_filter,
                     query |-> get_smart_date_query(date_filter)]
        /\ UNCHANGED <<now, server_tz, rcall, enabled>>
        /\ UNCHANGED searchVars

\* date_utils.get_events_date_filter_query(date_filter)
GetEventsDateFilterQuery ==
    \E date_filter \in DateFilterKinds :
        /\ dcall.op = "none"
        /\ dcall' = [op |-> "get_events_date_filter_query", date_filter |-> date_filter,
                     query |-> get_events_date_filter_query(date_filter)]
        /\ UNCHANGED <<now, server_tz, rcall, enabled>>
        /\ UNCHANGED searchVars

\* date_utils.filter_events_by_day_type(events, day_type)
FilterEventsByDayType ==
    \E evs \in SeqsUpTo(DayTypeEvents, MaxFilterLen), day_type \in DayTypeKinds :
        /\ dcall.op = "none"
        /\ dcall' = [op |-> "filter_events_by_day_type", day_type |-> day_type,
                     events |-> evs, kept |-> filter_events_by_day_type(evs, day_type)]
        /\ UNCHANGED <<now, server_tz, rcall, enabled>>
        /\ UNCHANGED searchVars

\* the predicate get_events builds for a date_filter parameter
\* the parameters of the requests to get_events: every date_filter alone, and
\* every combination of the free-price filter, a category, an area, coordinates
\* and a date_from, without a date_filter and with date_filter today
GetEventsParams ==
    {[NoParams EXCEPT !.date_filter = date_filter] :
        date_filter \in DateFilterKinds \cup {"none", "all"}}
    \cup {[NoParams EXCEPT !.date_filter = date_filter,
                           !.price_min = price, !.price_max = price,
                           !.category = category, !.area = area,
                           !.latitude = point[1], !.longitude = point[2],
                           !.date_from = date_from] :
            date_filter \in {"none", "today"}, price \in {"none", "0"},
            category \in {"none", "music"}, area \in {"none", "marina"},
            point \in {<<"none", "none">>, <<"25.2", "55.3">>},
            date_from \in {NoDT, DT(9, 0, "naive")}}

\* routers/events.py: get_events, up to its filter_query
GetEventsFilter ==
    \E p \in GetEventsParams :
        /\ dcall.op = "none"
        /\ pc = "idle"
        /\ dcall' = [op |-> "get_events", date_filter |-> p.date_filter, params |-> p,
                     filter_query |-> get_events_filter(p)]
        /\ UNCHANGED <<now, server_tz, rcall, enabled>>
        /\ UNCHANGED searchVars

NextDate ==
    \/ GetWeekendStartEnd
    \/ CalculateDateRange
    \/ OptimizedWeekend
    \/ OptimizedTemporal
    \/ ParseTemporalExpression
    \/ EnhanceQueryAnalysis
    \/ GetSmartDateQuery
    \/ GetEventsDateFilterQuery
    \/ FilterEventsByDayType
    \/ GetEventsFilter

SpecDate == InitDate /\ [][NextDate]_vars

-----------------------------------------------------------------------------
(* The ranking step: one call of a ranking service per behaviour.           *)

InitRank ==
    /\ now = DT(0, 12 * HourMs, "utc")
    /\ server_tz = "utc"
    /\ dcall = NoCall
    /\ rcall = NoCall
    /\ enabled \in [optimized : BOOLEAN, v1 : BOOLEAN]
    /\ db = {}
    /\ req = NoCall
    /\ pc = "idle"
    /\ filter_query = <<>>
    /\ events = <<>>
    /\ calls = <<>>
    /\ response = NoCall

\* the answers the external service can give when the method calls it
OutcomesOf(called) == IF called THEN Outcomes ELSE {NotCalled}

AnalyzeAndScore ==
    /\ rcall.op = "none"
    /\ \E n \in 0..MaxCandidates :
         \E outcome \in OutcomesOf(enabled.optimized) :
            rcall' = [op |-> "analyze_and_score", n |-> n, outcome |-> outcome,
                      result |-> analyze_and_score(Candidates(n), outcome)]
    /\ UNCHANGED <<now, server_tz, dcall, enabled>>
    /\ UNCHANGED searchVars

MatchEvents ==
    /\ rcall.op = "none"
    /\ \E n \in 0..MaxCandidates :
         \E outcome \in OutcomesOf(enabled.v1 /\ n > 0) :
            rcall' = [op |-> "match_events", n |-> n, outcome |-> outcome,
                      result |-> match_events(Candidates(n), outcome)]
    /\ UNCHANGED <<now, server_tz, dcall, enabled>>
    /\ UNCHANGED searchVars

NextRank ==
    \/ AnalyzeAndScore
    \/ MatchEvents

SpecRank == InitRank /\ [][NextRank]_vars

-----------------------------------------------------------------------------
(* routers/ai_search_optimized.py: optimized_ai_search, one request per     *)
(* behaviour.  The handler is suspended at its awaits: the primary find,    *)
(* the fallback aggregate and the ranking call.                             *)

\* the first lines of the handler, up to the predicate (lines 29-377)
ReceiveFrom(queries, pages, sizes) ==
    /\ pc = "idle"
    /\ dcall.op = "none"
    /\ \E q \in queries, page \in pages, per_page \in sizes :
        /\ req' = [handler |-> "optimized", q |-> q, page |-> page, per_page |-> per_page,
                   current_time |-> local_now,
                   temporal |-> OptTemporal(q, local_now)]
        /\ filter_query' = OptimizedFilterQuery(q, local_now)
    /\ pc' = "find"
    /\ UNCHANGED <<now, server_tz, dcall, rcall, enabled, db, events, calls, response>>

\* the queries of the predicate builder: at most one phrase of every intent
FamilyPhrases == {<<>>, <<"kids">>, <<"children">>, <<"family">>}
CategoryPhrases == {<<>>, <<"music">>, <<"nightlife">>}
LocationPhrases == {<<>>, <<"marina">>}
PricePhrases == {<<>>, <<"free">>}
VenuePhrases == {<<>>, <<"outdoor">>}

IntentQueries ==
    {f \o c \o l \o p \o v \o t :
        f \in FamilyPhrases, c \in CategoryPhrases, l \in LocationPhrases,
        p \in PricePhrases, v \in VenuePhrases, t \in TemporalPhrases}

\* 20:00 UTC of the reference days: the next day has begun in Dubai
FilterInstants == {DT(d, 20 * HourMs, "utc") : d \in RefDays}

InitFilter ==
    /\ now \in FilterInstants
    /\ server_tz \in ServerZones
    /\ dcall = NoCall
    /\ rcall = NoCall
    /\ enabled = [optimized |-> FALSE, v1 |-> FALSE]
    /\ db = {}
    /\ req = NoCall
    /\ pc = "idle"
    /\ filter_query = <<>>
    /\ events = <<>>
    /\ calls = <<>>
    /\ response = NoCall

BuildFilter == ReceiveFrom(IntentQueries, {1}, {20})

NextFilter ==
    \/ BuildFilter
    \/ GetEventsFilter

SpecFilter == InitFilter /\ [][NextFilter]_vars

-----------------------------------------------------------------------------
(* optimized_ai_search against a document store *)

\* a stored event without optional fields, from 10:00 to 12:00 UTC of a day
Event(id, title, day) ==
    [id |-> id, title |-> title, tags |-> {}, category |-> {}, primary_category |-> {},
     status |-> {"active"}, start_date |-> DT(day, 10 * HourMs, "naive"),
     end_date |-> DT(day, 12 * HourMs, "naive"), familyScore |-> Absent,
     is_family_friendly |-> {}, age_min |-> Absent, price |-> {}, base_price |-> Absent,
     area |-> {}, venue_type |-> {}]

\* the events a store of the model can hold; day 5 is Saturday 6 January 2024
Catalog ==
    { \* a club night that carries a high family score
      [Event("1", <<"ladies", "night">>, 5) EXCEPT
          !.tags = {"nightlife"}, !.category = {"nightlife"}, !.familyScore = 90],
      \* a kids camp over the weekend
      [Event("2", <<"kids", "camp">>, 5) EXCEPT
          !.tags = {"kids", "family"}, !.category = {"family"}, !.familyScore = 85,
          !.is_family_friendly = {TRUE}, !.age_min = 4,
          !.end_date = DT(6, 12 * HourMs, "naive")],
      \* a free concert on Thursday
      [Event("3", <<"music", "marina">>, 3) EXCEPT
          !.tags = {"music"}, !.category = {"music"}, !.familyScore = 40,
          !.price = {"Free"}, !.base_price = 0, !.area = {"marina"},
          !.venue_type = {"outdoor"}],
      \* a family event that ended on Monday
      [Event("4", <<"family", "picnic">>, 0) EXCEPT
          !.tags = {"family"}, !.is_family_friendly = {TRUE}],
      \* a kids event that is not active
      [Event("5", <<"kids", "weekend">>, 5) EXCEPT
          !.tags = {"kids"}, !.status = {"cancelled"}, !.is_family_friendly = {TRUE}] }

Stores == {S \in SUBSET Catalog : Cardinality(S) <= MaxDb}

\* the orders a cursor can return a set of documents in
Orderings(S) ==
    {sq \in [1..Cardinality(S) -> S] : \A k, l \in 1..Cardinality(S) : sq[k] = sq[l] => k = l}

\* .sort("start_date", 1): documents with equal start_date come in any order
SortedByStart(sq) ==
    \A k \in 1..(Len(sq) - 1) : Le(sq[k].start_date, sq[k + 1].start_date)

\* db.events.find(filter_query, projection).sort("start_date", 1).limit(100)
FindResults(predicate) ==
    {SubSeqTo(sq, 100) :
        sq \in {o \in Orderings({e \in db : Matches(predicate, e)}) : SortedByStart(o)}}

\* db.events.aggregate([{$match: fallback_filter}, {$sample: {size: 50}}, ..])
SampleResults(predicate) ==
    {SubSeqTo(sq, 50) : sq \in Orderings({e \in db : Matches(predicate, e)})}

\* sq[a:b]
Slice(sq, a, b) == SubSeq(sq, a + 1, Min(b, Len(sq)))

\* the except branch of the handler: HTTPException(status_code=500)
Error500 == [status |-> 500]

\* an await of the handler as the log of the request keeps it.  A store
\* operation ends "ok" with n documents, "unavailable" (the store cannot be
\* reached) or "rejected" (the store refuses the predicate); a call of the
\* external service is logged with the status of its answer
Call(op, outcome, n) == [op |-> op, outcome |-> outcome, n |-> n]

StoreOps == {"find", "aggregate", "count_documents", "filter_options"}

\* the ways a store operation on a predicate can fail
StoreFailures(predicate) ==
    IF Rejects(predicate) THEN {"unavailable", "rejected"} ELSE {"unavailable"}

\* scored_events = [{"event": event, "score": None, "reason": None} for event in events]
Unscored(evs) ==
    [k \in 1..Len(evs) |-> [event |-> evs[k], score |-> Absent, reason |-> "none"]]

\* an event of the response: ai_score and ai_reasoning are set from the item,
\* and stay absent when the item has no score
EventResponse(item) ==
    [event |-> item.event, ai_score |-> item.score, ai_reasoning |-> item.reason]

\* (total + per_page - 1) // per_page
TotalPages(total, per_page) == (total + per_page - 1) \div per_page

\* the pagination block of optimized_ai_search
OptimizedPagination(page, per_page, total) ==
    [page |-> page, per_page |-> per_page, total |-> total,
     total_pages |-> TotalPages(total, per_page),
     has_next |-> page < TotalPages(total, per_page),
     has_prev |-> page > 1]

\* the pagination block of ai_powered_search, _fallback_search and get_events
SkipPagination(page, per_page, total) ==
    [page |-> page, per_page |-> per_page, total |-> total,
     total_pages |-> TotalPages(total, per_page),
     has_next |-> (page - 1) * per_page + per_page < total,
     has_prev |-> page > 1]

\* the pagination block of ai_powered_search when the retrieval found nothing
EmptyPagination(page, per_page) ==
    [page |-> page, per_page |-> per_page, total |-> 0, total_pages |-> 0,
     has_next |-> FALSE, has_prev |-> FALSE]

\* the queries of the requests
SearchQueries ==
    { <<"kids", "weekend">>, <<"family", "events", "this", "weekend">>, <<"kids">>,
      <<"music">>, <<"free", "music", "marina">>, <<"nightlife">>, <<"the">>, <<"party">>,
      <<"(kids">> }

PerPages == {1, 2}

\* the answers of the ranking service in a request
SearchOutcomes ==
    {o \in Outcomes :
        \/ o.status # "ok"
        \/ o.wrap = "garbage"
        \/ /\ o.wrap = "plain"
           /\ o.payload.shape = "object"
           /\ o.payload.typed_ok
           /\ o.payload.scored = "list"
           /\ Len(o.payload.items) <= 1
           /\ \A k \in 1..Len(o.payload.items) : o.payload.items[k].score = 90}

\* Wednesday 3 and Saturday 6 January 2024, noon UTC
SearchInstants == {DT(2, 12 * HourMs, "utc"), DT(5, 12 * HourMs, "utc")}

InitSearch ==
    /\ now \in SearchInstants
    /\ server_tz = "utc"
    /\ dcall = NoCall
    /\ rcall = NoCall
    /\ enabled \in {[optimized |-> b, v1 |-> b] : b \in BOOLEAN}
    /\ db \in Stores
    /\ req = NoCall
    /\ pc = "idle"
    /\ filter_query = <<>>
    /\ events = <<>>
    /\ calls = <<>>
    /\ response = NoCall

Receive == ReceiveFrom(SearchQueries, 1..MaxPage, PerPages)

\* mutant: the widened retrieval follows every primary retrieval
AfterPrimaryAlways(result) == "fallback"

\* `if not events:` after the primary retrieval (line 423)
AfterPrimary(result) == IF result = <<>> THEN "fallback" ELSE "score"

\* the primary retrieval (lines 418-419); an error of the store ends the request
PrimaryFind ==
    /\ pc = "find"
    /\ \/ \E failure \in StoreFailures(filter_query) :
             /\ calls' = Append(calls, Call("find", failure, 0))
             /\ response' = Error500
             /\ pc' = "done"
             /\ UNCHANGED events
       \/ /\ ~Rejects(filter_query)
          /\ \E result \in FindResults(filter_query) :
             /\ calls' = Append(calls, Call("find", "ok", Len(result)))
             /\ events' = result
             /\ pc' = AfterPrimary(result)
             /\ UNCHANGED response
    /\ UNCHANGED <<now, server_tz, dcall, rcall, enabled, db, req, filter_query>>

\* the widened retrieval when the primary one found nothing (lines 423-446)
FallbackFind ==
    /\ pc = "fallback"
    /\ \/ \E failure \in StoreFailures(FallbackFilter(req.q, req.current_time)) :
             /\ calls' = Append(calls, Call("aggregate", failure, 0))
             /\ response' = Error500
             /\ pc' = "done"
             /\ UNCHANGED events
       \/ \E result \in SampleResults(FallbackFilter(req.q, req.current_time)) :
             /\ calls' = Append(calls, Call("aggregate", "ok", Len(result)))
             /\ events' = result
             /\ pc' = "score"
             /\ UNCHANGED response
    /\ UNCHANGED <<now, server_tz, dcall, rcall, enabled, db, req, filter_query>>

\* mutant: a failed call is repeated once
RankingCallsRetry(outcome) ==
    IF outcome.status = "not_called" THEN <<>>
    ELSE IF outcome.status = "ok" THEN <<Call("analyze_and_score", outcome.status, 0)>>
    ELSE <<Call("analyze_and_score", outcome.status, 0),
           Call("analyze_and_score", outcome.status, 0)>>

\* the calls of the ranking service that analyze_and_score makes for an answer
RankingCalls(outcome) ==
    IF outcome.status = "not_called" THEN <<>>
    ELSE <<Call("analyze_and_score", outcome.status, 0)>>

\* the ranking call, the pagination and the response (lines 449-519)
Score ==
    /\ pc = "score"
    /\ \E outcome \in (IF enabled.optimized THEN SearchOutcomes ELSE {NotCalled}) :
         LET ai_result == analyze_and_score([k \in 1..Len(events) |-> events[k].id], outcome)
             skip == (req.page - 1) * req.per_page
             scored_events == Unscored(events)
             total_scored == Len(scored_events)
             paginated_scored == Slice(scored_events, skip, skip + req.per_page)
         IN  /\ response' =
                IF ai_result.raised THEN Error500
                ELSE [status |-> 200,
                      events |-> [k \in 1..Len(paginated_scored) |->
                                    EventResponse(paginated_scored[k])],
                      ai |-> ai_result.val.origin,
                      suggestions |-> ai_result.val.suggestions,
                      pagination |-> OptimizedPagination(req.page, req.per_page, total_scored),
                      ai_enabled |-> enabled.optimized]
             /\ calls' = calls \o RankingCalls(outcome)
    /\ pc' = "done"
    /\ UNCHANGED <<now, server_tz, dcall, rcall, enabled, db, req, filter_query, events>>

-----------------------------------------------------------------------------
(* routers/ai_search.py: ai_powered_search and _fallback_search *)

\* the fields of QueryAnalysis that the predicate is built from
QueryAnalysis(categories, family_friendly) ==
    [categories |-> categories, family_friendly |-> family_friendly]

\* the analysis without filters: of a disabled service, of a failed call
GeneralAnalysis == QueryAnalysis({}, FALSE)

\* the analyses the service answers analyze_query with
V1Analyses == {GeneralAnalysis, QueryAnalysis({}, TRUE), QueryAnalysis({"music"}, FALSE)}

\* filter_query of ai_powered_search (lines 42-74)
V1FilterQuery(analysis) ==
    LET base == <<Entry("status", StrEq("status", "active"))>>
        cat == IF analysis.categories # {}
               THEN DictSet(base, "category", StrIn("category", analysis.categories))
               ELSE base
    IN  IF analysis.family_friendly
        THEN DictSet(cat, "$or",
                     Or(<< StrEq("familySuitability.isAllAges", "true"),
                           StrIn("tags", {"family-friendly", "kids", "children"}),
                           NumCmp("familyScore", "$gte", 70) >>))
        ELSE cat

\* db.events.find(filter_query).sort("start_date", 1).limit(max_events_for_ai)
V1FindResults(predicate, max_events_for_ai) ==
    {SubSeqTo(sq, max_events_for_ai) :
        sq \in {o \in Orderings({e \in db : Matches(predicate, e)}) : SortedByStart(o)}}

\* quick_score(event): the words of the query among those of the title and the tags
quick_score(q, event) ==
    Cardinality({q[k] : k \in 1..Len(q)} \cap (StrField(event, "title") \cup event.tags))

\* events.sort(key=quick_score, reverse=True); events = events[:15], for more
\* than 15 events
PreFilter(q, evs) ==
    IF Len(evs) > 15
    THEN LET keyed == [k \in 1..Len(evs) |-> [score |-> quick_score(q, evs[k]), event |-> evs[k]]]
             sorted == SortByScore(keyed)
         IN  [k \in 1..15 |-> sorted[k].event]
    ELSE evs

\* next((e for e in events if str(e["_id"]) == event_id), None) is not None
Found(evs, event_id) == \E k \in 1..Len(evs) : evs[k].id = event_id

OriginalEvent(evs, event_id) ==
    evs[CHOOSE k \in 1..Len(evs) :
            evs[k].id = event_id /\ \A l \in 1..(k - 1) : evs[l].id # event_id]

\* event_responses of ai_powered_search (lines 150-161): the records of the
\* page whose event is among the retrieved ones
V1EventResponses(evs, paginated_scored) ==
    LET found == SelectSeq(paginated_scored, LAMBDA r : Found(evs, r.id))
    IN  [k \in 1..Len(found) |->
            EventResponse([event |-> OriginalEvent(evs, found[k].id),
                           score |-> found[k].score, reason |-> found[k].reason])]

\* the four suggestions of the code
FixedSuggestions == <<"Indoor activities", "Family events", "Weekend activities", "Free events">>

\* suggest_followups: the list the service answered with (up to six, possibly
\* none), or the four suggestions of the code
V1Suggestions == {FixedSuggestions, <<"More like this">>, <<>>}

\* the queries of the requests to ai_powered_search
V1Queries == { <<"kids">>, <<"kids", "weekend">>, <<"(kids">> }

\* an array answer with one record per id
ArrayAnswer(ids, score) ==
    [status |-> "ok", wrap |-> "plain",
     payload |-> Payload("array", TRUE, "missing",
                         [k \in 1..Len(ids) |-> [id |-> ids[k], kind |-> "record", score |-> score]])]

Reverse(sq) == [k \in 1..Len(sq) |-> sq[Len(sq) + 1 - k]]

\* the answers of the service to match_events for the candidates ids: a failure,
\* a record for every candidate (in the order of the prompt or not), a record
\* for the first one only, a record for an unknown id, two records for the
\* first one
V1Outcomes(ids) ==
    {o \in Outcomes : o.status = "timeout" \/ o.wrap = "garbage"}
    \cup {ArrayAnswer(ids, 90), ArrayAnswer(Reverse(ids), 90), ArrayAnswer(SubSeqTo(ids, 1), 150),
          ArrayAnswer(<<"x">>, 40), ArrayAnswer(SubSeqTo(ids, 1) \o SubSeqTo(ids, 1), 70)}

\* the first lines of ai_powered_search: analyze_query, the disabled branch,
\* the predicate (lines 30-93)
V1Receive ==
    /\ pc = "idle"
    /\ dcall.op = "none"
    /\ \E q \in V1Queries, page \in 1..MaxPage, per_page \in PerPages :
         \E analysis \in (IF enabled.v1 THEN V1Analyses ELSE {GeneralAnalysis}) :
            /\ req' = [handler |-> "v1", q |-> q, page |-> page, per_page |-> per_page,
                       analysis |-> analysis]
            /\ filter_query' = IF enabled.v1 THEN V1FilterQuery(analysis) ELSE <<>>
    /\ calls' = IF enabled.v1 THEN <<Call("analyze_query", "ok", 0)>> ELSE <<>>
    /\ pc' = IF enabled.v1 THEN "v1_find" ELSE "v1_fallback"
    /\ UNCHANGED <<now, server_tz, dcall, rcall, enabled, db, events, response>>

\* the retrieval of ai_powered_search (lines 95-120): an exception is caught and
\* answered by _fallback_search (lines 194-197)
V1Find ==
    /\ pc = "v1_find"
    /\ \/ \E failure \in StoreFailures(filter_query) :
             /\ calls' = Append(calls, Call("find", failure, 0))
             /\ pc' = "v1_fallback"
             /\ UNCHANGED <<events, response>>
       \/ /\ ~Rejects(filter_query)
          /\ \E result \in V1FindResults(filter_query, Min(30, req.per_page * 2)) :
             /\ events' = result
             /\ IF result = <<>>
                THEN \E suggestions \in V1Suggestions :
                        /\ calls' = calls \o << Call("find", "ok", 0),
                                                Call("generate_response", "ok", 0),
                                                Call("suggest_followups", "ok", 0) >>
                        /\ response' = [status |-> 200, events |-> <<>>, ai |-> "ai",
                                        suggestions |-> suggestions,
                                        pagination |-> EmptyPagination(req.page, req.per_page),
                                        ai_enabled |-> TRUE]
                        /\ pc' = "done"
                ELSE /\ calls' = Append(calls, Call("find", "ok", Len(result)))
                     /\ pc' = "v1_score"
                     /\ UNCHANGED response
    /\ UNCHANGED <<now, server_tz, dcall, rcall, enabled, db, req, filter_query>>

\* the ranking, the pagination and the response of ai_powered_search (lines
\* 122-189); an exception of the filter options is answered by _fallback_search
V1Score ==
    /\ pc = "v1_score"
    /\ \E outcome \in V1Outcomes([k \in 1..Len(events) |-> events[k].id]),
          suggestions \in V1Suggestions :
         LET candidates == PreFilter(req.q, events)
             ranked == match_events([k \in 1..Len(candidates) |-> candidates[k].id], outcome).val
             scored_events == ranked.scored_events
             skip == (req.page - 1) * req.per_page
             total_scored == Len(scored_events)
             paginated_scored == Slice(scored_events, skip, skip + req.per_page)
             awaited == calls \o << Call("match_events", outcome.status, 0),
                                    Call("generate_response", "ok", 0),
                                    Call("suggest_followups", "ok", 0) >>
         IN  \/ /\ calls' = Append(awaited, Call("filter_options", "unavailable", 0))
                /\ pc' = "v1_fallback"
                /\ UNCHANGED response
             \/ /\ calls' = Append(awaited, Call("filter_options", "ok", 0))
                /\ response' = [status |-> 200,
                                events |-> V1EventResponses(candidates, paginated_scored),
                                ai |-> ranked.origin,
                                suggestions |-> suggestions,
                                pagination |-> SkipPagination(req.page, req.per_page, total_scored),
                                ai_enabled |-> TRUE]
                /\ pc' = "done"
    /\ UNCHANGED <<now, server_tz, dcall, rcall, enabled, db, req, filter_query, events>>

\* filter_query of _fallback_search (lines 203-213)
V1FallbackFilter(q) ==
    << Entry("status", StrEq("status", "active")),
       Entry("$or", Or(<< RegexPhrase("title", q), RegexPhrase("description", q),
                          RegexPhrase("tags", q), RegexPhrase("category", q),
                          RegexPhrase("venue.area", q) >>)) >>

\* db.events.find(filter_query).skip(skip).limit(per_page): no sort
SkipLimitResults(predicate, skip, per_page) ==
    {Slice(sq, skip, skip + per_page) : sq \in Orderings({e \in db : Matches(predicate, e)})}

\* db.events.count_documents(filter_query)
CountDocuments(predicate) == Cardinality({e \in db : Matches(predicate, e)})

\* _fallback_search (lines 199-250): the retrieval, the count and the filter
\* options; an exception of any of them is answered with HTTP 500
V1FallbackSearch ==
    /\ pc = "v1_fallback"
    /\ LET predicate == V1FallbackFilter(req.q)
           skip == (req.page - 1) * req.per_page
           fail(log) == /\ calls' = log
                        /\ response' = Error500
                        /\ UNCHANGED events
       IN  \/ \E failure \in StoreFailures(predicate) :
                fail(Append(calls, Call("find", failure, 0)))
           \/ /\ ~Rejects(predicate)
              /\ \E result \in SkipLimitResults(predicate, skip, req.per_page) :
                   LET found == Append(calls, Call("find", "ok", Len(result)))
                       total == CountDocuments(predicate)
                       counted == Append(found, Call("count_documents", "ok", total))
                   IN  \/ fail(Append(found, Call("count_documents", "unavailable", 0)))
                       \/ fail(Append(counted, Call("filter_options", "unavailable", 0)))
                       \/ /\ calls' = Append(counted, Call("filter_options", "ok", 0))
                          /\ events' = result
                          /\ response' =
                                [status |-> 200,
                                 events |-> [k \in 1..Len(result) |->
                                                EventResponse(Unscored(result)[k])],
                                 ai |-> "disabled",
                                 suggestions |-> FixedSuggestions,
                                 pagination |-> SkipPagination(req.page, req.per_page, total),
                                 ai_enabled |-> FALSE]
    /\ pc' = "done"
    /\ UNCHANGED <<now, server_tz, dcall, rcall, enabled, db, req, filter_query>>

NextSearch ==
    \/ Receive
    \/ PrimaryFind
    \/ FallbackFind
    \/ Score
    \/ V1Receive
    \/ V1Find
    \/ V1Score
    \/ V1FallbackSearch

SpecSearch == InitSearch /\ [][NextSearch]_vars

-----------------------------------------------------------------------------
(* Two concurrent requests to optimized_ai_search on the event loop.  The    *)
(* handler is a coroutine: its locals (the request, the predicate, the       *)
(* candidates, the response) are its own frame, and the loop runs another    *)
(* coroutine only while this one is suspended at an await.  The variables    *)
(* req .. response are the frame of the running request, rcall holds the     *)
(* frame of the suspended one; enabled, db, now and server_tz are            *)
(* process-wide.                                                             *)

Frame(r, p, f, e, c, a) ==
    [op |-> "suspended", req |-> r, pc |-> p, filter_query |-> f, events |-> e,
     calls |-> c, response |-> a]

\* the store of the concurrent requests: the club night and the kids camp
ConcurrentStore == {e \in Catalog : e.id \in {"1", "2"}}

InitConcurrent ==
    /\ now = DT(2, 12 * HourMs, "utc")
    /\ server_tz = "utc"
    /\ dcall = NoCall
    /\ rcall = Frame(NoCall, "idle", <<>>, <<>>, <<>>, NoCall)
    /\ enabled \in {[optimized |-> b, v1 |-> b] : b \in BOOLEAN}
    /\ db = ConcurrentStore
    /\ req = NoCall
    /\ pc = "idle"
    /\ filter_query = <<>>
    /\ events = <<>>
    /\ calls = <<>>
    /\ response = NoCall

ReceiveConcurrent == ReceiveFrom({<<"kids">>, <<"music">>}, {1, 2}, {1})

\* mutant: the handler keeps the request in a field of the service singleton,
\* so the resumed handler goes on with the request of the other one
SwitchSharingRequest ==
    /\ rcall.op = "suspended"
    /\ rcall' = Frame(req, pc, filter_query, events, calls, response)
    /\ pc' = rcall.pc
    /\ filter_query' = rcall.filter_query
    /\ events' = rcall.events
    /\ calls' = rcall.calls
    /\ response' = rcall.response
    /\ UNCHANGED <<now, server_tz, dcall, enabled, db, req>>

\* the event loop suspends the running handler at its await (or after its
\* return) and resumes the other one
Switch ==
    /\ rcall.op = "suspended"
    /\ rcall' = Frame(req, pc, filter_query, events, calls, response)
    /\ req' = rcall.req
    /\ pc' = rcall.pc
    /\ filter_query' = rcall.filter_query
    /\ events' = rcall.events
    /\ calls' = rcall.calls
    /\ response' = rcall.response
    /\ UNCHANGED <<now, server_tz, dcall, enabled, db>>

NextConcurrent ==
    \/ ReceiveConcurrent
    \/ PrimaryFind
    \/ FallbackFind
    \/ Score
    \/ Switch

SpecConcurrent == InitConcurrent /\ [][NextConcurrent]_vars

-----------------------------------------------------------------------------
(* Claims about the date utilities *)

InRange(t, r) == Le(r.start, t) /\ Le(t, r.end)

\* the civil (Dubai) datetime of a stored naive UTC datetime
Civil(dt) == convert_to_dubai_time(dt)

\* C3 (as claimed): on a civil Saturday or Sunday the this_weekend range of
\* get_weekend_start_end / calculate_date_range contains the reference instant, and
\* the weekend range of optimized_ai_search contains its now.
C3_ThisWeekendIsCurrent ==
    /\ (dcall.op = "get_weekend_start_end" /\ is_weekend_day(get_utc_now))
          => InRange(get_utc_now, dcall.range)
    /\ (dcall.op = "calculate_date_range" /\ dcall.range_type = "this_weekend"
          /\ is_weekend_day(get_utc_now))
          => (~dcall.result.raised /\ InRange(get_utc_now, dcall.result.val))
    /\ (dcall.op = "optimized_weekend" /\ Weekday(dcall.lnow) \in {5, 6})
          => InRange(dcall.lnow, dcall.range)

\* a weekend range in civil time: from 00:00 of a Saturday to the Sunday after it
IsSatSun(start, end) ==
    /\ Weekday(start) = 5
    /\ start.ms = 0
    /\ Weekday(end) = 6
    /\ end.day = start.day + 1

CivilDays(event) ==
    LET s == Civil(event.start_date)
        e == IF event.end_date = NoDT THEN s ELSE Civil(event.end_date)
    IN  s.day .. e.day

HasDayOfType(event, day_type) ==
    /\ event.start_date # NoDT
    /\ \E d \in CivilDays(event) :
          IF day_type = "weekends" THEN d % 7 \in {5, 6} ELSE d % 7 \in 0..4

InSeq(x, sq) == \E i \in 1..Len(sq) : sq[i] = x

\* C9 (as claimed): filter_events_by_day_type keeps an event iff some civil day of
\* its interval is a Saturday or Sunday (weekends) / a Monday to Friday (weekdays).
C9_DayTypeFilterByAnyDay ==
    dcall.op = "filter_events_by_day_type" =>
        \A i \in 1..Len(dcall.events) :
            InSeq(dcall.events[i], dcall.kept) <=> HasDayOfType(dcall.events[i], dcall.day_type)

\* C10 (as claimed): for weekdays and weekends no bounded date range is produced or
\* handed to retrieval by the parser, the two query builders, and get_events.
C10_NoRangeForDayTypes ==
    /\ (dcall.op = "parse_temporal_expression" /\ dcall.result.date_filter \in DayTypeKinds)
          => (dcall.result.date_from = NoDT /\ dcall.result.date_to = NoDT)
    /\ (dcall.op \in {"get_smart_date_query", "get_events_date_filter_query"}
          /\ dcall.date_filter \in DayTypeKinds)
          => dcall.query = <<>>
    /\ (dcall.op = "get_events" /\ dcall.date_filter \in DayTypeKinds)
          => ~HasKey(dcall.filter_query, "$and")

-----------------------------------------------------------------------------
(* Claims about the ranking step *)

RankCalled == rcall.op \in {"analyze_and_score", "match_events"}

\* C1: the ranking step is total: whatever the external service does (a
\* timeout, an API error, a text that is no JSON, an array where an object is
\* expected, missing or wrongly typed fields), analyze_and_score and
\* match_events return a result and never raise.
C1_RankingIsTotal ==
    RankCalled => ~rcall.result.raised

\* a call where the external service failed or answered with an unusable text,
\* and the method returned its fallback records
C1_Witness ==
    /\ rcall.op = "analyze_and_score"
    /\ rcall.outcome.status = "ok"
    /\ rcall.outcome.wrap = "plain"
    /\ rcall.outcome.payload.shape = "array"
    /\ rcall.n = 3
    /\ ~rcall.result.raised
    /\ rcall.result.val.origin = "fallback"
    /\ Len(rcall.result.val.scored_events) = 3

\* the scorable subset: the candidates the method puts into the prompt
ScorableCount(op, n) ==
    IF op = "analyze_and_score" THEN Min(n, 15) ELSE Min(n, 10)

\* C2: the scored list has exactly as many records as the scorable subset of
\* the candidates, on every path (success, fallback, disabled).
C2_ScoredLengthIsSubset ==
    RankCalled =>
        (/\ ~rcall.result.raised
         /\ Len(rcall.result.val.scored_events) = ScorableCount(rcall.op, rcall.n))


-----------------------------------------------------------------------------
(* Claims about the retrieval predicate *)

\* the temporal kinds that produce a range
RangeProducingKinds == {"today", "tomorrow", "this_week", "next_week", "this_weekend",
                        "next_weekend", "this_month", "next_month"}

\* a range as the store sees it
StoreRange(r) == Range(StoreInstant(r.start), StoreInstant(r.end))

\* instants before, at, inside, and after a range
ProbeInstants(r) ==
    {Plus(r.start, -1, 0), Plus(r.start, 0, -1), r.start, Plus(r.start, 0, HourMs),
     r.end, Plus(r.end, 0, 1), Plus(r.end, 1, 0)}

\* the event intervals over these instants, point events included
ProbeEvents(r) ==
    {[start_date |-> a, end_date |-> b] : a \in ProbeInstants(r), b \in ProbeInstants(r)}

Overlaps(event, r) == Le(event.start_date, r.end) /\ Le(r.start, event.end_date)

ClauseIsOverlap(clause, r) ==
    \A event \in ProbeEvents(StoreRange(r)) :
        Le(event.start_date, event.end_date) =>
            (Eval(clause, event) <=> Overlaps(event, StoreRange(r)))

\* the temporal clause of optimized_ai_search: the last element of $and
TemporalClause == DictGet(filter_query, "$and").args[Len(DictGet(filter_query, "$and").args)]

\* C5: for every range-producing kind with resolved range R, the temporal clause
\* of the retrieval predicate accepts an event interval E (E.start <= E.end) if
\* and only if E.start <= R.end and E.end >= R.start.
C5_TemporalClauseIsOverlap ==
    /\ (pc = "find" /\ req.temporal.kind \in RangeProducingKinds)
          => ClauseIsOverlap(TemporalClause, req.temporal.range)
    /\ (dcall.op = "get_events" /\ dcall.date_filter \in RangeProducingKinds
            /\ HasKey(dcall.filter_query, "$and"))
          => ClauseIsOverlap(DictGet(dcall.filter_query, "$and"),
                             calculate_date_range(dcall.date_filter, NoDT).val)

\* the family-signal keywords of the claim
FamilySignal(q) ==
    ContainsAny(q, {<<"kids">>, <<"kid">>, <<"children">>, <<"child">>, <<"family">>,
                    <<"family-friendly">>, <<"family", "events">>})

IsInclusion(clause) ==
    /\ clause.t = "$or"
    /\ clause.args[1].t = "bool"
    /\ clause.args[1].field = "is_family_friendly"

IsExclusion(clause) ==
    /\ clause.t = "$nor"
    /\ \E k \in 1..Len(clause.args) :
          clause.args[k].t = "in" /\ "nightlife" \in clause.args[k].vs

\* the elements of the top-level $and of the predicate
AndList == IF HasKey(filter_query, "$and") THEN DictGet(filter_query, "$and").args ELSE <<>>

\* C6: whenever the query holds a family-signal keyword, the primary predicate
\* holds both the family-inclusion clause and the adult-only/nightlife exclusion
\* clause; the inclusion clause is never present without the exclusion clause.
C6_InclusionWithExclusion ==
    pc = "find" =>
        /\ FamilySignal(req.q) =>
              (/\ \E k \in 1..Len(AndList) : IsInclusion(AndList[k])
               /\ \E k \in 1..Len(AndList) : IsExclusion(AndList[k]))
        /\ (\E k \in 1..Len(AndList) : IsInclusion(AndList[k]))
              => (\E k \in 1..Len(AndList) : IsExclusion(AndList[k]))

\* the intent a clause of the $and list belongs to
IntentOfClause(clause) ==
    IF clause.t = "$nor" THEN "exclusion"
    ELSE IF clause.t = "between" THEN "temporal"
    ELSE IF clause.args[1].t = "between" THEN "temporal"
    ELSE IF clause.args[1].field = "title" THEN "text"
    ELSE IF clause.args[1].field = "price" THEN "price"
    ELSE IF clause.args[1].field = "pricing.base_price" THEN "price"
    ELSE IF clause.args[1].field = "venue.area" THEN "location"
    ELSE IF clause.args[1].field = "category" THEN "category"
    ELSE IF clause.args[1].field = "is_family_friendly" THEN "family"
    ELSE IF clause.args[1].field = "age_min" THEN "family"
    ELSE IF clause.args[1].field = "venue_type" THEN "venue"
    ELSE "unknown"

\* the intents detected in a query, by the keyword lists of the handler
Once(intent, detected) == IF detected THEN <<intent>> ELSE <<>>

DetectedIntents(q, temporal) ==
    [k \in 1..Min(3, Len(meaningful_keywords(q))) |-> "text"]
    \o Once("price", ContainsAny(q, {<<"free">>, <<"cheap">>, <<"budget">>, <<"affordable">>,
                                     <<"expensive">>, <<"premium">>, <<"luxury">>}))
    \o Once("location", FirstMatch(q, location_matches, 1) # 0)
    \o Once("category", FirstMatch(q, category_matches, 1) # 0)
    \o Once("family", ContainsAny(q, {<<"kids">>, <<"kid">>, <<"children">>, <<"child">>,
                                      <<"family">>, <<"adults", "only">>, <<"adult", "only">>,
                                      <<"18+">>}))
    \o Once("venue", ContainsAny(q, {<<"outdoor">>, <<"indoor">>}))
    \o Once("temporal", temporal.kind # "none")

IsNotExclusion(intent) == intent # "exclusion"

\* C8: each detected intent contributes its own element to the single top-level
\* $and list of the predicate; no two intents write the same key and no earlier
\* clause is overwritten by a later one.
C8_OneElementPerIntent ==
    pc = "find" =>
        /\ \A k \in 1..Len(filter_query) : filter_query[k].key \in {"status", "end_date", "$and"}
        /\ \A k \in 1..Len(filter_query) : \A l \in 1..Len(filter_query) :
              filter_query[k].key = filter_query[l].key => k = l
        /\ SelectSeq([k \in 1..Len(AndList) |-> IntentOfClause(AndList[k])], IsNotExclusion)
              = DetectedIntents(req.q, req.temporal)

\* a predicate with all seven intents
C8_Witness ==
    /\ pc = "find"
    /\ req.q = <<"kids", "music", "marina", "free", "outdoor", "this", "weekend">>
    /\ Len(AndList) = 10

-----------------------------------------------------------------------------
(* Claims about the search request *)

KidsQuery(q) == ContainsAny(q, {<<"kids">>, <<"kid">>, <<"children">>, <<"child">>})

\* C7: for a query with a kids keyword, an event tagged nightlife is never among
\* the events of the response, even when its familyScore is 90, whichever
\* retrieval (primary or widened fallback) produced the candidates.
C7_NoNightlifeForKids ==
    (pc = "done" /\ response.status = 200 /\ KidsQuery(req.q)) =>
        \A k \in 1..Len(response.events) : "nightlife" \notin response.events[k].event.tags

-----------------------------------------------------------------------------
(* Claims about failures of a search request *)

Done == pc = "done"

\* the document-store operations of the request, in the order they were issued
StoreCalls == SelectSeq(calls, LAMBDA c : c.op \in StoreOps)

FailedStoreCalls == SelectSeq(StoreCalls, LAMBDA c : c.outcome # "ok")

C12_NoQueryFails ==
    (Done /\ \A k \in 1..Len(calls) : calls[k].outcome # "unavailable")
        => response.status = 200

-----------------------------------------------------------------------------
(* Claims about the response of optimized_ai_search *)

CountOf(op) == Len(SelectSeq(calls, LAMBDA c : c.op = op))

Optimized == pc # "idle" /\ req.handler = "optimized"

\* the primary and the widened retrieval both returned no document
NoCandidateRemains ==
    /\ \E k \in 1..Len(calls) : calls[k] = Call("find", "ok", 0)
    /\ \E k \in 1..Len(calls) : calls[k] = Call("aggregate", "ok", 0)

\* C13: when no candidate remains after the primary and the widened retrieval,
\* the request succeeds with empty events, pagination total 0 and a non-empty
\* suggestions list, whatever the external service answered.
C13_EmptyResultIsWellFormed ==
    (Done /\ Optimized /\ NoCandidateRemains) =>
        /\ response.status = 200
        /\ response.events = <<>>
        /\ response.pagination.total = 0
        /\ response.suggestions # <<>>

\* C14: in optimized_ai_search the widened retrieval is executed exactly once
\* in a request whose primary retrieval returned no candidate, never in a
\* request whose primary retrieval returned one or more, and never twice.
C14_WidenedRetrievalOnce ==
    Optimized =>
        /\ CountOf("find") <= 1
        /\ CountOf("aggregate") <= 1
        /\ CountOf("aggregate") = 1 => Call("find", "ok", 0) = calls[1]
        /\ (pc \in {"score", "done"} /\ CountOf("find") = 1 /\ calls[1] = Call("find", "ok", 0))
              => CountOf("aggregate") = 1

\* the primary and the widened retrieval found nothing, and the request is answered
C14_Witness ==
    /\ Done
    /\ Optimized
    /\ NoCandidateRemains
    /\ CountOf("aggregate") = 1
    /\ response.status = 200

Ranked == Done /\ response.status = 200 /\ response.ai \in {"ai", "fallback"}

PageOf(sq) == Slice(sq, (req.page - 1) * req.per_page, (req.page - 1) * req.per_page + req.per_page)

\* C16: every retrieved candidate that the external service did not score
\* still appears in the ranked result set with a neutral default score: the
\* result set has as many entries as candidates were retrieved, the page has
\* as many events as its window of them, and each carries a score.
C16_UnscoredCandidatesKept ==
    Ranked =>
        /\ response.pagination.total = Len(events)
        /\ Len(response.events) = Len(PageOf(events))
        /\ \A k \in 1..Len(response.events) : response.events[k].ai_score # Absent

\* C17: every event of the response of a ranked search carries a score within
\* 0..100 and a reason string, whether the service or the fallback produced it.
C17_ScoreAndReasonInRange ==
    Ranked =>
        \A k \in 1..Len(response.events) :
            /\ response.events[k].ai_score \in 0..100
            /\ response.events[k].ai_reasoning # "none"

\* C18: when the external ranking call failed or timed out and the fallback
\* result is used, ai_enabled of the response differs from the TRUE of a
\* response whose external call succeeded.
C18_StatusReflectsFallback ==
    (Done /\ response.status = 200 /\ response.ai = "fallback") => ~response.ai_enabled

\* ceil(a / b)
CeilDiv(a, b) == CHOOSE n \in 0..a : n * b >= a /\ (n = 0 \/ (n - 1) * b < a)

\* C19: every search response has total_pages = ceil(total / per_page),
\* has_next = (page * per_page < total) and has_prev = (page > 1).
C19_PaginationArithmetic ==
    (Done /\ response.status = 200) =>
        LET p == response.pagination
        IN  /\ p.page = req.page /\ p.per_page = req.per_page
            /\ p.total_pages = CeilDiv(p.total, p.per_page)
            /\ p.has_next = (p.page * p.per_page < p.total)
            /\ p.has_prev = (p.page > 1)

\* the place of a document in the retrieval order
Position(id) == CHOOSE k \in 1..Len(events) : events[k].id = id

\* C20: the events of a search response are ordered by non-increasing score,
\* and events with equal score keep their retrieval order.
C20_StableDescendingOrder ==
    (Done /\ response.status = 200) =>
        \A k, l \in 1..Len(response.events) :
            k < l =>
                /\ response.events[k].ai_score >= response.events[l].ai_score
                /\ response.events[k].ai_score = response.events[l].ai_score
                      => Position(response.events[k].event.id) < Position(response.events[l].event.id)

-----------------------------------------------------------------------------
(* Claims about the resolved ranges *)

\* the range from 00:00 of the first Saturday after the civil instant t to
\* 23:59:59.999 of the Sunday that follows it
ComingWeekend(t) ==
    Range(DT(t.day + 5 - Weekday(t), 0, t.tz), DT(t.day + 6 - Weekday(t), EndOfDay, t.tz))

SameInstants(r, s) ==
    /\ r.start.day = s.start.day /\ r.start.ms = s.start.ms
    /\ r.end.day = s.end.day /\ r.end.ms = s.end.ms

CivilRange(r) == Range(Civil(r.start), Civil(r.end))

\* C21: for a reference instant on a civil Monday to Friday the this_weekend
\* range starts at civil 00:00 of the first Saturday after it and ends at civil
\* 23:59:59.999 of the following Sunday (get_weekend_start_end,
\* calculate_date_range, and optimized_ai_search on its own clock).
C21_WeekdayResolvesComingWeekend ==
    /\ (dcall.op = "get_weekend_start_end" /\ Weekday(get_dubai_now) < 5)
          => SameInstants(CivilRange(dcall.range), ComingWeekend(get_dubai_now))
    /\ (dcall.op = "calculate_date_range" /\ dcall.range_type = "this_weekend"
            /\ Weekday(get_dubai_now) < 5)
          => (/\ ~dcall.result.raised
              /\ SameInstants(CivilRange(dcall.result.val), ComingWeekend(get_dubai_now)))
    /\ (dcall.op = "optimized_weekend" /\ Weekday(dcall.lnow) < 5)
          => SameInstants(dcall.range, ComingWeekend(dcall.lnow))

\* the civil month `months` after the month of the civil instant t, from 00:00
\* of its first day to 23:59:59.999 of its last day
CivilMonth(t, months) ==
    LET m0 == MonthOf(t) + months
        y == IF m0 > 12 THEN YearOf(t) + 1 ELSE YearOf(t)
        m == IF m0 > 12 THEN m0 - 12 ELSE m0
    IN  Range(DT(Ordinal(y, m, 1), 0, t.tz), DT(Ordinal(y, m, DaysInMonth(y, m)), EndOfDay, t.tz))

\* C22: for every reference instant calculate_date_range returns, without
\* raising, the current civil month for this_month and the following civil
\* month for next_month.
C22_MonthRangesTotal ==
    /\ (dcall.op = "calculate_date_range" /\ dcall.range_type = "this_month")
          => (/\ ~dcall.result.raised
              /\ SameInstants(CivilRange(dcall.result.val), CivilMonth(get_dubai_now, 0)))
    /\ (dcall.op = "calculate_date_range" /\ dcall.range_type = "next_month")
          => (/\ ~dcall.result.raised
              /\ SameInstants(CivilRange(dcall.result.val), CivilMonth(get_dubai_now, 1)))

\* C23: the bounds of a 'today' query in a retrieval predicate are civil
\* midnight and 23:59:59.999 of the current Dubai date, expressed in UTC.
C23_TodayIsCivilDay ==
    /\ (pc = "find" /\ req.temporal.kind = "today")
          => SameInstants(StoreRange(req.temporal.range),
                          Range(convert_to_utc(ReplaceTime(get_dubai_now, 0)),
                                convert_to_utc(ReplaceTime(get_dubai_now, EndOfDay))))
    /\ (dcall.op = "get_events" /\ dcall.date_filter = "today")
          => (/\ HasKey(dcall.filter_query, "$and")
              /\ ClauseIsOverlap(DictGet(dcall.filter_query, "$and"),
                                 Range(convert_to_utc(ReplaceTime(get_dubai_now, 0)),
                                       convert_to_utc(ReplaceTime(get_dubai_now, EndOfDay)))))

-----------------------------------------------------------------------------
(* Claims about the order of the temporal patterns *)

\* C24: the first matching pattern wins and no earlier pattern captures a
\* later phrase by substring: 'this weekend' resolves to this_weekend and
\* 'next weekend' to next_weekend, in parse_temporal_expression and in the
\* phrase checks of optimized_ai_search.
C24_WeekendPhrasesResolve ==
    /\ (dcall.op = "parse_temporal_expression" /\ dcall.query = <<"this", "weekend">>)
          => dcall.result.date_filter = "this_weekend"
    /\ (dcall.op = "parse_temporal_expression" /\ dcall.query = <<"next", "weekend">>)
          => dcall.result.date_filter = "next_weekend"
    /\ (dcall.op = "optimized_temporal" /\ dcall.query = <<"this", "weekend">>)
          => dcall.temporal.kind = "this_weekend"
    /\ (dcall.op = "optimized_temporal" /\ dcall.query = <<"next", "weekend">>)
          => dcall.temporal.kind = "next_weekend"

\* C29: in the result of enhance_query_analysis the date range corresponds to
\* the date_filter: no date_from and date_to for weekdays and weekends, whatever
\* the analysis of the service contained, and the range of calculate_date_range
\* for a range kind.
C29_RangeMatchesDateFilter ==
    dcall.op = "enhance_query_analysis" =>
        /\ dcall.enhanced.date_filter \in DayTypeKinds
              => (dcall.enhanced.date_from = NoDT /\ dcall.enhanced.date_to = NoDT)
        /\ dcall.enhanced.date_filter \in RangeKinds
              => (/\ ~calculate_date_range(dcall.enhanced.date_filter, NoDT).raised
                  /\ dcall.enhanced.date_from =
                        calculate_date_range(dcall.enhanced.date_filter, NoDT).val.start
                  /\ dcall.enhanced.date_to =
                        calculate_date_range(dcall.enhanced.date_filter, NoDT).val.end)

-----------------------------------------------------------------------------
(* Claims about the extraction of JSON from the answer of the service *)

\* a ranking call that received a text from the service
Extracting == rcall.op # "none" /\ rcall.outcome.status = "ok"

\* the stages of the extraction of the call, and what the extraction returned
StagesOf(call) ==
    IF call.op = "analyze_and_score" THEN StagesOptimized(call.outcome)
    ELSE StagesV1(call.outcome)

ExtractedOf(call) ==
    IF call.op = "analyze_and_score" THEN ExtractJsonOptimized(call.outcome)
    ELSE ExtractJsonV1(call.outcome)

\* the stages direct parse, fenced block and slice { .. } of the call
ThreeStagesOf(call) ==
    <<StagesOf(call)[1], StagesOf(call)[2],
      StagesOf(call)[IF call.op = "analyze_and_score" THEN 4 ELSE 5]>>

\* the extraction returns what the first stage of stages that parses returns,
\* and raises exactly when none parses
DeterminedBy(stages, extracted) ==
    /\ \A k \in 1..Len(stages) :
          (~stages[k].raised /\ \A j \in 1..(k - 1) : stages[j].raised)
              => extracted = stages[k]
    /\ extracted.raised <=> \A k \in 1..Len(stages) : stages[k].raised

\* C25 as stated: the result of the extraction is that of the first of direct
\* parse, fenced-block extraction and the slice from the first { to the last }
\* that parses, and when the three fail the error makes the caller return the
\* fallback result.
C25_ThreeStagesDetermineResult ==
    Extracting =>
        /\ DeterminedBy(ThreeStagesOf(rcall), ExtractedOf(rcall))
        /\ (\A k \in 1..3 : ThreeStagesOf(rcall)[k].raised)
              => rcall.result = Ok(IF rcall.op = "analyze_and_score"
                                   THEN OptimizedFallback(Candidates(rcall.n))
                                   ELSE V1Fallback(Candidates(rcall.n)))

\* C25 amended: the stages are direct parse, fenced-block extraction, the
\* pattern search for an object (then for an array of objects in
\* OpenAISearchService) and the slice { .. } (then [ .. ] in
\* OpenAISearchService); the first stage that parses determines the result, an
\* object in a fence is extracted as it is, and the error raised when every
\* stage fails makes the caller return the fallback result.
C25_FirstParsingStageDeterminesResult ==
    Extracting =>
        /\ DeterminedBy(StagesOf(rcall), ExtractedOf(rcall))
        /\ (rcall.outcome.wrap = "fenced" /\ rcall.outcome.payload.shape = "object")
              => ExtractedOf(rcall) = Ok(rcall.outcome.payload)
        /\ ExtractedOf(rcall).raised
              => rcall.result = Ok(IF rcall.op = "analyze_and_score"
                                   THEN OptimizedFallback(Candidates(rcall.n))
                                   ELSE V1Fallback(Candidates(rcall.n)))

\* an analysis object in a fence was extracted and gave the scores of the result
C25_Witness ==
    /\ rcall.op = "analyze_and_score"
    /\ rcall.outcome.status = "ok"
    /\ rcall.outcome.wrap = "fenced"
    /\ rcall.outcome.payload.shape = "object"
    /\ DirectParse(rcall.outcome).raised
    /\ rcall.result.val.origin = "ai"
    /\ rcall.result.val.scored_events # <<>>

-----------------------------------------------------------------------------
(* Claims about the predicate of get_events *)

\* the predicate d holds the clause under some key
HasClause(d, clause) == \E k \in 1..Len(d) : d[k].val = clause

\* C27: every filter dimension requested of get_events constrains the final
\* predicate: the clause of the free-price filter, of the category, of the area,
\* of the coordinates, of the date_filter and of date_from is in filter_query,
\* none is overwritten by a clause of another dimension under the same key.
C27_EveryDimensionConstrains ==
    dcall.op = "get_events" =>
        LET p == dcall.params
            d == dcall.filter_query
            only(q) == get_events_filter(q)
            free == [NoParams EXCEPT !.price_min = p.price_min, !.price_max = p.price_max]
            cat == [NoParams EXCEPT !.category = p.category]
            area == [NoParams EXCEPT !.area = p.area]
            near == [NoParams EXCEPT !.latitude = p.latitude, !.longitude = p.longitude]
            from == [NoParams EXCEPT !.date_from = p.date_from]
            dated == [NoParams EXCEPT !.date_filter = p.date_filter]
        IN  /\ (p.price_min = "0" /\ p.price_max = "0")
                  => HasClause(d, DictGet(only(free), "$or"))
            /\ p.category # "none" => HasClause(d, DictGet(only(cat), "$or"))
            /\ p.area # "none" => HasClause(d, DictGet(only(area), "location"))
            /\ p.latitude # "none" => HasClause(d, DictGet(only(near), "location"))
            /\ p.date_from # NoDT => HasClause(d, DictGet(only(from), "start_date"))
            /\ HasKey(only(dated), "$and") => HasClause(d, DictGet(only(dated), "$and"))

\* clause is end_date >= v for an instant v not before t
EndsNotBefore(clause, t) ==
    /\ clause.t = "date" /\ clause.field = "end_date" /\ clause.cmp = "$gte"
    /\ Le(t, StoreInstant(clause.v))

\* the predicate d requires status = active and, at its top level or in its
\* $and, end_date >= v for an instant v not before t
RequiresActiveUnended(d, t) ==
    /\ HasKey(d, "status") /\ DictGet(d, "status") = StrEq("status", "active")
    /\ \/ HasKey(d, "end_date") /\ EndsNotBefore(DictGet(d, "end_date"), t)
       \/ /\ HasKey(d, "$and")
          /\ \E k \in 1..Len(DictGet(d, "$and").args) :
                EndsNotBefore(DictGet(d, "$and").args[k], t)

\* C28: every retrieval predicate of get_events, of ai_powered_search and of
\* optimized_ai_search (primary and widened) requires status = active and
\* end_date >= now, now being the clock reading of the handler.
C28_PredicatesExcludeEndedEvents ==
    /\ dcall.op = "get_events" => RequiresActiveUnended(dcall.filter_query, get_utc_now)
    /\ pc = "find" => RequiresActiveUnended(filter_query, req.current_time)
    /\ pc = "fallback"
          => RequiresActiveUnended(FallbackFilter(req.q, req.current_time), req.current_time)
    /\ pc = "v1_find" => RequiresActiveUnended(filter_query, get_utc_now)
    /\ pc = "v1_fallback" => RequiresActiveUnended(V1FallbackFilter(req.q), get_utc_now)

-----------------------------------------------------------------------------
(* Claims about the totals of ai_powered_search *)

\* C30: in a ranked response of ai_powered_search, pagination.total is the
\* number of events returned over the pages: the page holds as many events as
\* its window of total records, each the event of a retrieved candidate, and no
\* candidate twice, whatever ids the answer of the service contains.
C30_TotalCountsReturnedEvents ==
    (Ranked /\ req.handler = "v1") =>
        LET skip == (req.page - 1) * req.per_page
            total == response.pagination.total
        IN  /\ Len(response.events) =
                  IF total <= skip THEN 0 ELSE Min(req.per_page, total - skip)
            /\ \A k \in 1..Len(response.events) :
                  \E c \in 1..Len(events) : events[c] = response.events[k].event
            /\ \A k, l \in 1..Len(response.events) :
                  k # l => response.events[k].event.id # response.events[l].event.id

-----------------------------------------------------------------------------
(* Claims about concurrent requests *)

\* the frame of the running request
Running == Frame(req, pc, filter_query, events, calls, response)

\* what the frame c of a request holds is what the request run alone with the
\* clock, the store and the service flag of the process computes: its
\* predicate is that of its own query, its candidates are documents of the
\* store that its own predicates select, and its response pages its own
\* candidates with its own page and reports the flag of the service
RunsAsAlone(c) ==
    /\ c.pc # "idle"
          => /\ c.req.current_time = local_now
             /\ c.req.temporal = OptTemporal(c.req.q, local_now)
             /\ c.filter_query = OptimizedFilterQuery(c.req.q, local_now)
             /\ \A k \in 1..Len(c.events) :
                   /\ c.events[k] \in db
                   /\ \/ Matches(c.filter_query, c.events[k])
                      \/ Matches(FallbackFilter(c.req.q, local_now), c.events[k])
    /\ (c.pc = "done" /\ c.response.status = 200)
          => /\ c.response.pagination =
                    OptimizedPagination(c.req.page, c.req.per_page, Len(c.events))
             /\ Len(c.response.events) =
                    Len(Slice(c.events, (c.req.page - 1) * c.req.per_page,
                              (c.req.page - 1) * c.req.per_page + c.req.per_page))
             /\ \A k \in 1..Len(c.response.events) :
                   c.response.events[k].event =
                       c.events[(c.req.page - 1) * c.req.per_page + k]
             /\ c.response.ai_enabled = enabled.optimized
             /\ (c.response.ai = "disabled") <=> ~enabled.optimized

\* C26: in every interleaving of two requests at their suspension points, no
\* step of a handler writes the process-wide state (the flag of the service
\* singleton, the store, the clock settings), a step changes the frame of the
\* suspended request only by resuming it, and each request holds what it
\* computes when it runs alone.
C26_RequestsDoNotInterfere ==
    /\ [](RunsAsAlone(Running) /\ RunsAsAlone(rcall))
    /\ [][/\ enabled' = enabled /\ db' = db /\ server_tz' = server_tz
          /\ (rcall' # rcall => (rcall' = Running /\ Running' = rcall))]_vars

\* both requests were served, one after a suspension of the other, with
\* different queries
C26_Witness ==
    /\ pc = "done" /\ response.status = 200
    /\ rcall.pc = "done" /\ rcall.response.status = 200
    /\ req.q # rcall.req.q
    /\ req.page # rcall.req.page
    /\ Len(calls) > 1 /\ Len(rcall.calls) > 1

====
